---------------------------- MODULE Spec2Model ----------------------------
(***************************************************************************)
(* A model of the 2game2demo arena game.                                   *)
(*                                                                         *)
(*   Spec        the per-frame simulation of src/scene.py (Scene.update):  *)
(*               the adversary pool, the attacks and the combat resolver.  *)
(*   ServerSpec  the relay server of src/server.py: the connection         *)
(*               handlers, process_messages and the broadcaster.           *)
(*   NetSpec     the client's Gamestate.update_net of src/gamestate.py.    *)
(*   ClientSpec  the frames of a connected client: the cast, the kills     *)
(*               credited, and Scene.net_update with its two queues.       *)
(*   EntitySpec  Entity.net_update on one payload.                         *)
(*   SendSpec    Client.send and Server.send.                              *)
(*   SpawnSpec   Scene.spawn_outside, spawn_near and spawn_enemies: where  *)
(*               adversaries are placed.                                   *)
(*   PatternSpec the construction of an EnemyPattern and spawn_target.     *)
(*   ParticleSpec   Particle.update and Explosion.update, called again and *)
(*               again at any reading of the clock.                        *)
(*   RoundTripSpec  an area-effect attack serialized by its owner and      *)
(*               rebuilt by Gamestate.update_net.                          *)
(*   KnockbackSpec  Entity.gain_innertia and the decay in Player.update.   *)
(*   WireSpec    the threads of src/network.py (connection, sender) and    *)
(*               the simulation thread where it queues and drains.         *)
(*   ExplosionSpec  one area-effect attack updated frame by frame, with    *)
(*               the children that hit pruned by Scene.update.             *)
(*   EffectSpec  one effect record of a peer: built by update_net and      *)
(*               evaluated by the next Scene.update.                       *)
(*   ContactSpec Scene.damage_player and Entity.gain_innertia for one      *)
(*               contact.                                                  *)
(*                                                                         *)
(* In Spec positions are not kept: which rectangles overlap in a frame is  *)
(* an input of the frame (any subset of the sprites that could overlap).   *)
(* pygame                                                                  *)
(* Groups are insertion-ordered dictionaries, so they are sequences here.  *)
(***************************************************************************)
EXTENDS Integers, Sequences, FiniteSets, TLC

\* ------------------------------------------------------------ bounds
\* Adversaries pre-allocated at scene start (2001 in src/scene.py:147).
PoolSize == 2
\* The simulated time span, in milliseconds.
MaxTime == 8000
\* Child particles of one area-effect sweep (360 in src/particle.py:177).
NumSubs == 1

\* ------------------------------------------------- program constants
MaxHp == 10
EnemyPower == 1
AttackPower == 10
SuperPower == 25
AttackInterval == 500
SuperInterval == 5000
SpawnTimeout == 1000
ParticleLifetime == 1000
ExplosionLifetime == 1250
Windup == 750

\* Frame lengths (clock.tick(60) returns any duration of at least 1/60 s).
Dts == {1000, 3000}
\* number_of_enemies of the spawn patterns applied.
PatternCounts == {0, 1, 2, 20}

Enemies == 1..PoolSize

VARIABLES
    pc,              \* position inside Scene.update
    idx,             \* index of the particle the attack loop is at
    ticks,           \* pg.time.get_ticks() of the current frame
    dead_sprites,    \* Scene.dead_sprites
    enemies,         \* Gamestate.enemies
    enemy_hp,        \* Enemy.current_hp
    onscreen,        \* Enemy.has_been_onscreen
    player_alive,    \* Gamestate.player.alive()
    player_hp,       \* Gamestate.player.current_hp
    score,           \* Gamestate.score[App.config('name')]
    particles,       \* Gamestate.player.particles
    supers,          \* Gamestate.super_attacks[Gamestate.player.uuid]
    last_attack,     \* Player.last_attack
    last_super,      \* Player.last_super
    last_spawn,      \* Scene.last_spawn
    player_rect,     \* Gamestate.player.rect.topleft, as far as the revive sees it
    space,           \* keys[pg.K_SPACE] as read in the current frame
    patterns,        \* the counts of the patterns applied in the current frame
    stamps           \* when a pattern was last applied, when the player last revived

sceneVars == <<pc, idx, ticks, dead_sprites, enemies, enemy_hp, onscreen,
               player_alive, player_hp, score, particles, supers,
               last_attack, last_super, last_spawn, player_rect, space,
               patterns, stamps>>

\* The relay server (src/server.py).
VARIABLES
    conn_state,        \* where the handler of each connection is
    client_id,         \* client_id of each handler
    sent,              \* steady-state messages received on each connection
    clients,           \* Server.clients
    receive_queue,     \* Server.receive_queue
    send_queue,        \* Server.send_queue: references to gamestate queued
    gamestate,         \* gamestate of process_messages
    gamestate_updated, \* gamestate_updated of process_messages
    pm_pc,             \* where process_messages is
    bc_pc,             \* where the broadcaster is
    inbox              \* the last message each connection was sent

serverVars == <<conn_state, client_id, sent, clients, receive_queue, send_queue,
                gamestate, gamestate_updated, pm_pc, bc_pc, inbox>>

\* The client's side of the network (Gamestate.update_net).
VARIABLES
    ghosts,          \* Gamestate.ghosts
    super_attacks,   \* Gamestate.super_attacks, the entries of the peers
    peer_score,      \* Gamestate.score, the entries of other names
    net_offset,      \* Gamestate.offset
    running,         \* the game has not been ended by an exception
    tables_seen,     \* tables handed to update_net so far
    mentioned,       \* last attributes received for each peer key
    carried          \* effects each peer key carried in the last table

netVars == <<ghosts, super_attacks, peer_score, net_offset, running, tables_seen,
             mentioned, carried>>

\* The client's queues (network.Client) and what it sends.
VARIABLES
    net_queue,       \* client.receive_queue: tables received and not drained
    arrived,         \* tables received so far
    outbox,          \* every message handed to client.send, in order
    kills,           \* kills credited so far
    prev_ticks,      \* the tick count of the previous frame
    new_supers       \* Gamestate.new_supers

clientVars == <<net_queue, arrived, outbox, kills, prev_ticks>>

\* One call of a function that is checked on its own.
VARIABLES
    call,            \* the function called and its arguments
    result           \* what the call returned or raised, and the state it left

callVars == <<call, result>>

\* The threads of the network client (src/network.py) and the thread of the
\* simulation where it uses the client.
VARIABLES
    sim_pc,          \* where the simulation thread is
    c_running,       \* Client.running
    c_send_queue,    \* Client.send_queue
    c_receive_queue, \* Client.receive_queue
    sender_pc,       \* where the thread of _send_messages is
    sending,         \* `message` of _send_messages
    transmitted,     \* what ws.send has been given, in order
    ret,             \* `ret` of get_messages
    returned,        \* what get_messages has returned so far, in order
    c_arrived,       \* messages on_message has been called with
    frames,          \* calls of net_update completed
    opened_with      \* len of the send queue when on_open ran

wireVars == <<sim_pc, c_running, c_send_queue, c_receive_queue, sender_pc,
              sending, transmitted, ret, returned, c_arrived, frames,
              opened_with>>

vars == <<sceneVars, serverVars, netVars, clientVars, new_supers, callVars,
          wireVars>>

\* ------------------------------------------------------------ helpers
Range(s) == {s[i] : i \in 1..Len(s)}

\* pygame.sprite.Group.add: a sprite already in the group is not added again.
GroupAdd(g, e) == IF e \in Range(g) THEN g ELSE Append(g, e)

\* pygame.sprite.Group.remove.
GroupRemove(g, e) == SelectSeq(g, LAMBDA x : x /= e)

\* The sprites of group g that are in set S, in the group's order.
Pick(g, S) == SelectSeq(g, LAMBDA x : x \in S)

\* ----------------------------------------------------------- particles
\* Particle.__init__ / Particle.reset: a fresh particle spawned at `now`.
NewParticle(now, lifetime) ==
    [spawn_time |-> now, lifetime |-> lifetime, has_expired |-> FALSE]

\* An update that recomputes the flag from the clock instead of only setting it.
ParticleRecomputes(p, now) ==
    [p EXCEPT !.has_expired = p.spawn_time + p.lifetime < now]

\* Particle.update: the lifetime check (the move is a change of position).
ParticleUpdate(p, now) ==
    IF p.spawn_time + p.lifetime < now THEN [p EXCEPT !.has_expired = TRUE] ELSE p

UpdateAll(ps, now) == [i \in 1..Len(ps) |-> ParticleUpdate(ps[i], now)]

\* [p for p in ... if not p.has_expired]
Cull(ps) == SelectSeq(ps, LAMBDA p : ~p.has_expired)

\* Explosion.__init__ / Explosion.reset.
NewExplosion(now) ==
    [spawn_time |-> now, lifetime |-> ExplosionLifetime, has_expired |-> FALSE,
     triggered |-> FALSE, sub_particles |-> <<>>]

\* Explosion.update: the base update, then past the wind-up the sweep is
\* generated whenever the child list is empty, the children are updated and
\* the expired ones pruned.
ExplosionUpdate(x, now) ==
    LET b == ParticleUpdate(x, now) IN
    IF b.spawn_time + Windup < now
    THEN LET gen == IF b.sub_particles = <<>>
                    THEN [k \in 1..NumSubs |-> NewParticle(now, b.lifetime - Windup)]
                    ELSE b.sub_particles
         IN [b EXCEPT !.triggered = TRUE,
                      !.sub_particles = Cull(UpdateAll(gen, now))]
    ELSE [b EXCEPT !.triggered = FALSE]

\* ------------------------------------------------------------- combat
\* The part of the state a combat resolution reads and writes.
Combat == [dead |-> dead_sprites, act |-> enemies, hp |-> enemy_hp,
           score |-> score, php |-> player_hp, palive |-> player_alive]

\* A killed enemy that is not put back into the pool.
RecycleDropped(dead, h) == dead

\* self.dead_sprites.add(h)
Recycle(dead, h) == GroupAdd(dead, h)

\* Gamestate.score[App.config('name')] += h.max_hp  (max_hp is 10 for every entity)
Credit(s, h) == s + MaxHp

\* Scene.damage_player: the hit points drop by the power; at zero or below
\* the player is killed, otherwise knocked back.
DamagePlayer(st, power) ==
    LET hp2 == st.php - power IN
    IF hp2 <= 0 THEN [st EXCEPT !.php = hp2, !.palive = FALSE]
                ELSE [st EXCEPT !.php = hp2]

\* A hit that credits and pools the enemy but leaves it in the active set.
HitEnemyStaysActive(st, h, pwr) ==
    LET hp2 == st.hp[h] - pwr IN
    IF hp2 <= 0
    THEN [st EXCEPT !.hp[h] = hp2,
                    !.score = st.score + MaxHp,
                    !.dead = GroupAdd(st.dead, h)]
    ELSE [st EXCEPT !.hp[h] = hp2]

\* Scene.check_attacks, the body of the loop for one hit Enemy h:
\* h.kill() takes h out of every group before it is added to the pool.
HitEnemy(st, h, pwr) ==
    LET hp2 == st.hp[h] - pwr IN
    IF hp2 <= 0
    THEN [st EXCEPT !.hp[h] = hp2,
                    !.act = GroupRemove(st.act, h),
                    !.score = Credit(st.score, h),
                    !.dead = Recycle(GroupRemove(st.dead, h), h)]
    ELSE [st EXCEPT !.hp[h] = hp2]

\* Scene.check_attacks against Gamestate.enemies: `hit` is what spritecollide
\* returned, a list of sprites of the group.
RECURSIVE CheckAttacks(_, _, _)
CheckAttacks(st, hit, pwr) ==
    IF hit = <<>> THEN st
    ELSE CheckAttacks(HitEnemy(st, Head(hit), pwr), Tail(hit), pwr)

\* Scene.update, the loop over the collisions of the player with the enemies.
RECURSIVE Collisions(_, _)
Collisions(st, hit) ==
    IF hit = <<>> THEN st
    ELSE Collisions(DamagePlayer(st, EnemyPower), Tail(hit))

\* An attack that is left as it is whatever it hit.
MarkNever(p, hit) == p

\* Scene.check_attacks, lines 437-438: an attack that hit something is
\* marked expired.
MarkHit(p, hit) == IF hit THEN [p EXCEPT !.has_expired = TRUE] ELSE p

\* Scene.update lines 330-333 for the children of one triggered explosion:
\* child k is checked against the enemies it overlaps (He[k]) and against the
\* player (Hp[k]); a child that hit anything is expired and pruned.
RECURSIVE SubAttacks(_, _, _, _, _)
SubAttacks(st, subs, k, He, Hp) ==
    IF k > Len(subs) THEN [st |-> st, subs |-> Cull(subs)]
    ELSE LET hitE == Pick(st.act, He[k])
             st1 == CheckAttacks(st, hitE, SuperPower)
             st2 == IF Hp[k] THEN DamagePlayer(st1, SuperPower) ELSE st1
             sub == MarkHit(MarkHit(subs[k], hitE /= <<>>), Hp[k])
         IN SubAttacks(st2, [subs EXCEPT ![k] = sub], k + 1, He, Hp)

\* A spawn that activates the enemy and leaves it in the pool as well.
SpawnStaysPooled(st, d) ==
    [st EXCEPT !.hp[d] = MaxHp,
               !.act = GroupAdd(GroupRemove(st.act, d), d)]

\* Entity.respawn / Enemy.respawn and the move into Gamestate.enemies
\* (Scene.spawn_enemies, the body of the loop for one pooled enemy d).
SpawnOne(st, d) ==
    [st EXCEPT !.dead = GroupRemove(st.dead, d),
               !.hp[d] = MaxHp,
               !.act = GroupAdd(GroupRemove(st.act, d), d)]

\* Scene.spawn_enemies: the loop over a snapshot of the pool, broken off once
\* len(spawned) >= number_of_enemies.
RECURSIVE SpawnLoop(_, _, _, _)
SpawnLoop(st, pool, spawned, n) ==
    IF pool = <<>> THEN [st |-> st, spawned |-> spawned]
    ELSE LET st1 == SpawnOne(st, Head(pool))
             sp1 == spawned \cup {Head(pool)}
         IN IF Cardinality(sp1) >= n THEN [st |-> st1, spawned |-> sp1]
            ELSE SpawnLoop(st1, Tail(pool), sp1, n)

\* Writes a combat state back.
Store(st) ==
    /\ dead_sprites' = st.dead
    /\ enemies' = st.act
    /\ enemy_hp' = st.hp
    /\ score' = st.score
    /\ player_hp' = st.php
    /\ player_alive' = st.palive


\* A respawn that moves the entity and leaves its hit points as they are.
RespawnKeepsHp(e, origin) == [e EXCEPT !.rect = origin]

\* Entity.respawn(origin): the rectangle is put at the origin and the hit
\* points are back at max_hp.
EntityRespawn(e, origin) == [e EXCEPT !.rect = origin, !.hp = MaxHp]

\* ------------------------------------------------- Scene.update, by phase
SceneInit ==
    /\ pc = "idle"
    /\ idx = 1
    /\ ticks = 0
    /\ dead_sprites = [i \in 1..PoolSize |-> i]
    /\ enemies = <<>>
    /\ enemy_hp = [e \in Enemies |-> MaxHp]
    /\ onscreen = [e \in Enemies |-> FALSE]
    /\ player_alive = TRUE
    /\ player_hp = MaxHp
    /\ score = 0
    /\ particles = <<>>
    /\ supers = <<>>
    /\ last_attack = 0
    /\ last_super = 0
    /\ player_rect = "respawn"
    /\ space = FALSE
    /\ patterns = <<>>
    /\ stamps = [applied |-> -1, revived |-> -1]
    /\ last_spawn = 0

\* A defeated player whose particles are left as they are.
DefeatedParticlesKept(ps, now) == ps

\* Lines 310-315: the particles of a defeated player are updated and culled.
DefeatedParticles(ps, now) == Cull(UpdateAll(ps, now))

\* An auto-fire that does not need a target.
FiresWithoutTarget(last, now, act) == last + AttackInterval < now

\* Lines 281-290: the cooldown has passed and there is an enemy to aim at.
ShouldFire(last, now, act) == last + AttackInterval < now /\ act /= <<>>

\* Lines 277-323: the frame starts dt after the previous one.  A live player
\* auto-fires (Player.attack), updates and culls its particles (Player.update)
\* and casts the area-effect attack when charged and SPACE (`key`) is pressed; a
\* defeated player has its particles updated and culled and is revived when
\* SPACE is pressed.
TickStart(dt, key) ==
    /\ UNCHANGED <<serverVars, netVars, clientVars, callVars, wireVars>>
    /\ pc = "idle"
    /\ ticks + dt <= MaxTime
    /\ LET now == ticks + dt IN
       /\ ticks' = now
       /\ IF player_alive
          THEN LET fire == ShouldFire(last_attack, now, enemies)
                   shot == IF fire
                           THEN Append(particles, NewParticle(now, ParticleLifetime))
                           ELSE particles
               IN /\ last_attack' = (IF fire THEN now ELSE last_attack)
                  /\ particles' = Cull(UpdateAll(shot, now))
                  /\ IF now - last_super > SuperInterval /\ key
                     THEN /\ last_super' = now
                          /\ supers' = Append(supers, NewExplosion(now))
                          /\ new_supers' = Append(new_supers, NewExplosion(now))
                     ELSE UNCHANGED <<last_super, supers, new_supers>>
                  /\ player_rect' \in {player_rect, "moved"}
                  /\ UNCHANGED <<player_alive, player_hp, score, last_spawn, stamps>>
          ELSE /\ particles' = DefeatedParticles(particles, now)
               /\ IF key
                  THEN /\ \E r \in {EntityRespawn([hp |-> player_hp,
                                                      rect |-> player_rect],
                                                     "respawn")} :
                              /\ player_hp' = r.hp
                              /\ player_rect' = r.rect
                       /\ player_alive' = TRUE
                       /\ last_super' = now
                       /\ score' = 0
                       /\ last_spawn' = now
                       /\ stamps' = [stamps EXCEPT !.revived = now]
                  ELSE UNCHANGED <<player_hp, player_rect, player_alive,
                                   last_super, score, last_spawn, stamps>>
               /\ UNCHANGED <<last_attack, supers, new_supers>>
    /\ space' = key
    /\ patterns' = <<>>
    /\ pc' = "supers"
    /\ idx' = 1
    /\ UNCHANGED <<dead_sprites, enemies, enemy_hp, onscreen>>

\* Lines 327-333 for one area-effect attack: it is updated and, when
\* triggered, each child is checked against the enemies and the player.
SuperAttack ==
    /\ UNCHANGED <<serverVars, netVars, clientVars, new_supers, callVars, wireVars>>
    /\ pc = "supers"
    /\ idx <= Len(supers)
    /\ LET x == ExplosionUpdate(supers[idx], ticks)
           K == 1..Len(x.sub_particles)
       IN IF x.triggered
          THEN \E He \in [K -> SUBSET Range(enemies)], Hp \in [K -> BOOLEAN] :
                  LET r == SubAttacks(Combat, x.sub_particles, 1, He, Hp) IN
                  /\ Store(r.st)
                  /\ supers' = [supers EXCEPT ![idx] =
                                   [x EXCEPT !.sub_particles = r.subs]]
          ELSE /\ supers' = [supers EXCEPT ![idx] = x]
               /\ UNCHANGED <<dead_sprites, enemies, enemy_hp, score, player_hp,
                              player_alive>>
    /\ idx' = idx + 1
    /\ UNCHANGED <<pc, ticks, onscreen, particles, last_attack, last_super,
                   last_spawn,
                   player_rect, space, patterns, stamps>>

\* Line 334: the expired area-effect attacks are dropped.
EndSupers ==
    /\ UNCHANGED <<serverVars, netVars, clientVars, new_supers, callVars, wireVars>>
    /\ pc = "supers"
    /\ idx > Len(supers)
    /\ supers' = Cull(supers)
    /\ pc' = "attacks"
    /\ idx' = 1
    /\ UNCHANGED <<ticks, dead_sprites, enemies, enemy_hp, onscreen, player_alive,
                   player_hp, score, particles, last_attack, last_super, last_spawn,
                   player_rect, space, patterns, stamps>>

\* Lines 339-345 for one particle of the player: check_attacks against the
\* enemies it overlaps (S); a particle that hit is marked expired (line 438).
PlayerAttack ==
    /\ UNCHANGED <<serverVars, netVars, clientVars, new_supers, callVars, wireVars>>
    /\ pc = "attacks"
    /\ idx <= Len(particles)
    /\ \E S \in SUBSET Range(enemies) :
          LET hit == Pick(enemies, S) IN
          /\ Store(CheckAttacks(Combat, hit, AttackPower))
          /\ particles' = [particles EXCEPT ![idx] = MarkHit(@, hit /= <<>>)]
    /\ idx' = idx + 1
    /\ UNCHANGED <<pc, ticks, onscreen, supers, last_attack, last_super, last_spawn,
                   player_rect, space, patterns, stamps>>

\* Lines 348-355, the pool after the enemies in `out` (in group order) left.
RECURSIVE LeaveLoop(_, _)
LeaveLoop(dead, out) ==
    IF out = <<>> THEN dead
    ELSE LeaveLoop(Recycle(GroupRemove(dead, Head(out)), Head(out)), Tail(out))

\* Lines 348-355: every active enemy moves; InB are those whose rectangle
\* then overlaps the bounds.  One outside that has been on screen is killed
\* and pooled; one inside is marked as having been on screen.
UpdateEnemies ==
    /\ UNCHANGED <<serverVars, netVars, clientVars, new_supers, callVars, wireVars>>
    /\ pc = "attacks"
    /\ idx > Len(particles)
    /\ \E InB \in SUBSET Range(enemies) :
          LET gone == {e \in Range(enemies) : e \notin InB /\ onscreen[e]} IN
          /\ enemies' = SelectSeq(enemies, LAMBDA e : e \notin gone)
          /\ dead_sprites' = LeaveLoop(dead_sprites, Pick(enemies, gone))
          /\ onscreen' = [e \in Enemies |-> IF e \in InB THEN TRUE ELSE onscreen[e]]
    /\ pc' = "spawn"
    /\ UNCHANGED <<idx, ticks, enemy_hp, player_alive, player_hp, score, particles,
                   supers, last_attack, last_super, last_spawn,
                   player_rect, space, patterns, stamps>>

\* A spawn check that does not look at the player.
SpawnDueAnyway(last, now, alive) == last + SpawnTimeout < now

\* Line 357: the condition under which a pattern is applied.
SpawnDue(last, now, alive) == last + SpawnTimeout < now /\ alive

\* Lines 357-359: a pattern (of n enemies) is applied when the spawn interval
\* has passed and the player is alive.
SpawnCheck ==
    /\ UNCHANGED <<serverVars, netVars, clientVars, new_supers, callVars, wireVars>>
    /\ pc = "spawn"
    /\ IF SpawnDue(last_spawn, ticks, player_alive)
       THEN \E n \in PatternCounts :
               LET r == SpawnLoop(Combat, dead_sprites, {}, n) IN
               /\ Store(r.st)
               /\ onscreen' = [e \in Enemies |->
                                 IF e \in r.spawned THEN FALSE ELSE onscreen[e]]
               /\ last_spawn' = ticks
               /\ patterns' = Append(patterns, n)
               /\ stamps' = [stamps EXCEPT !.applied = ticks]
       ELSE UNCHANGED <<dead_sprites, enemies, enemy_hp, score, player_hp,
                        player_alive, onscreen, last_spawn, patterns, stamps>>
    /\ pc' = "collide"
    /\ UNCHANGED <<idx, ticks, particles, supers, last_attack, last_super,
                   player_rect, space>>

\* Lines 361-363: every enemy overlapping the player damages it.  The player
\* stays inside the bounds, so an enemy overlapping it has been on screen.
Collide ==
    /\ UNCHANGED <<serverVars, netVars, clientVars, new_supers, callVars, wireVars>>
    /\ pc = "collide"
    /\ \E S \in SUBSET {e \in Range(enemies) : onscreen[e]} :
          Store(Collisions(Combat, Pick(enemies, S)))
    /\ pc' = "idle"
    /\ UNCHANGED <<idx, ticks, onscreen, particles, supers, last_attack, last_super,
                   last_spawn,
                   player_rect, space, patterns, stamps>>

Next ==
    \/ \E dt \in Dts, key \in BOOLEAN : TickStart(dt, key)
    \/ SuperAttack
    \/ EndSupers
    \/ PlayerAttack
    \/ UpdateEnemies
    \/ SpawnCheck
    \/ Collide

\* ------------------------------------------------- claims on the scene

\* C1: after any sequence of frames every pre-allocated adversary is in
\* exactly one of the dead pool and the active set, never in both and never
\* in neither, and the number of adversaries stays the number pre-allocated.
C1_PoolPartition ==
    /\ Range(dead_sprites) \cap Range(enemies) = {}
    /\ Range(dead_sprites) \cup Range(enemies) = Enemies
    /\ Len(dead_sprites) + Len(enemies) = PoolSize

\* A frame has ended with one adversary killed by an attack and pooled again
\* while another one is active.
C1_Witness ==
    /\ pc = "idle"
    /\ score > 0
    /\ \E e \in Range(dead_sprites) : enemy_hp[e] <= 0
    /\ enemies /= <<>>

\* C2: at the end of a frame no entity (the player or an adversary) has
\* negative hit points.
C2_HpNeverNegative ==
    pc = "idle" => /\ player_hp >= 0
                   /\ \A e \in Enemies : enemy_hp[e] >= 0

MaxConns == 3
\* Steady-state messages received on all connections together (bound).
MaxMsgs == 2

Conns == 1..MaxConns

\* The identities clients present ("uuid" of the first message).
IdNames == <<"a", "b", "c", "d">>
\* data.get("uuid") of a first message without an identity.
NoId == ""
\* Connection c presents one of the first c identities or none: every pattern
\* of equal and different identities among the connections is covered.
IdsOf(c) == {IdNames[j] : j \in 1..c} \cup {NoId}
\* 'ws': None of line 82.
None == 0
\* time.time() of line 66.
ServerTime == 100
\* data.get('time', 0) of the first message on connection c.
ClockOf(c) == 10 * c

\* A dict with no key.
EmptyDict == [k \in {} |-> 0]
\* d[k] = v
Put(d, k, v) == [x \in DOMAIN d \cup {k} |-> IF x = k THEN v ELSE d[x]]
\* del d[k], for a key that is there
Del(d, k) == [x \in DOMAIN d \ {k} |-> d[x]]

\* Line 67, `if not client_id`, accepts everything.
AcceptsAnything(uuid) == FALSE

\* Line 67: `if not client_id`.
RejectsHandshake(uuid) == uuid = NoId

\* Line 194, the table is sent in every period.
SendsEveryPeriod(gs, updated) == TRUE

\* Line 194: `if gamestate and gamestate_updated`.
ShouldSend(gs, updated) == gs /= EmptyDict /\ updated

\* A send that serializes the shared table with whatever offset it holds.
SendsTableAsLeft(client, message) ==
    IF "offset" \in DOMAIN message THEN message
    ELSE Put(message, "offset", client.time_offset)

\* Lines 114-116: the message a client is sent; line 114 writes the offset
\* into the message, which is the gamestate of process_messages itself, and
\* line 116 serializes it before anything else can run.
SendMessage(client, message) == Put(message, "offset", client.time_offset)

\* Lines 185-193: the messages drained are merged in order.  `del` of a key
\* that is not in gamestate raises KeyError (ok = FALSE) and the messages after
\* it are lost.
RECURSIVE MergeMsgs(_, _)
MergeMsgs(st, msgs) ==
    IF msgs = <<>> THEN st
    ELSE LET m == Head(msgs) IN
         IF m.remove
         THEN IF m.uuid \in DOMAIN st.gs
              THEN MergeMsgs([st EXCEPT !.gs = Del(st.gs, m.uuid),
                                        !.updated = TRUE], Tail(msgs))
              ELSE [st EXCEPT !.ok = FALSE]
         ELSE MergeMsgs([st EXCEPT !.gs = Put(st.gs, m.uuid, m.data),
                                   !.updated = TRUE], Tail(msgs))

\* Lines 45-49 and 181-182.
ServerInit ==
    /\ conn_state = [c \in Conns |-> "new"]
    /\ client_id = [c \in Conns |-> NoId]
    /\ sent = [c \in Conns |-> 0]
    /\ clients = EmptyDict
    /\ receive_queue = <<>>
    /\ send_queue = 0
    /\ gamestate = EmptyDict
    /\ gamestate_updated = FALSE
    /\ pm_pc = "ready"
    /\ bc_pc = "running"
    /\ inbox = [c \in Conns |-> EmptyDict]

\* Lines 63-72: the first message of connection c arrives with identity uuid.
Handshake(c, uuid) ==
    /\ UNCHANGED <<sceneVars, netVars, clientVars, new_supers, callVars, wireVars>>
    /\ conn_state[c] = "new"
    /\ client_id' = [client_id EXCEPT ![c] = uuid]
    /\ IF RejectsHandshake(uuid)
       THEN /\ conn_state' = [conn_state EXCEPT ![c] = "rejected"]
            /\ UNCHANGED clients
       ELSE /\ conn_state' = [conn_state EXCEPT ![c] = "open"]
            /\ clients' = Put(clients, uuid,
                              [ws |-> c, time_offset |-> ServerTime - ClockOf(c)])
    /\ UNCHANGED <<sent, receive_queue, send_queue, gamestate, gamestate_updated,
                   pm_pc, bc_pc, inbox>>

\* The steady-state messages received so far on the connections 1..n.
RECURSIVE Received(_)
Received(n) == IF n = 0 THEN 0 ELSE sent[n] + Received(n - 1)

\* Lines 76-77: a steady-state message arrives on connection c.  Its payload
\* is the number of the message on that connection.
Receive(c) ==
    /\ UNCHANGED <<sceneVars, netVars, clientVars, new_supers, callVars, wireVars>>
    /\ conn_state[c] = "open"
    /\ Received(MaxConns) < MaxMsgs
    /\ sent' = [sent EXCEPT ![c] = sent[c] + 1]
    /\ receive_queue' = Append(receive_queue,
                               [uuid |-> client_id[c], remove |-> FALSE,
                                data |-> sent[c] + 1])
    /\ UNCHANGED <<conn_state, client_id, clients, send_queue, gamestate,
                   gamestate_updated, pm_pc, bc_pc, inbox>>

\* The socket of connection c is closed by the peer or the network; the
\* handler, suspended in line 76, has not run since.
Drop(c) ==
    /\ UNCHANGED <<sceneVars, netVars, clientVars, new_supers, callVars, wireVars>>
    /\ conn_state[c] = "open"
    /\ conn_state' = [conn_state EXCEPT ![c] = "lost"]
    /\ UNCHANGED <<client_id, sent, clients, receive_queue, send_queue, gamestate,
                   gamestate_updated, pm_pc, bc_pc, inbox>>

\* Lines 78-82: the handler of connection c leaves its loop, by itself or
\* after the socket was closed under it.
Close(c) ==
    /\ UNCHANGED <<sceneVars, netVars, clientVars, new_supers, callVars, wireVars>>
    /\ conn_state[c] \in {"open", "lost"}
    /\ conn_state' = [conn_state EXCEPT ![c] = "closed"]
    /\ receive_queue' = Append(receive_queue,
                               [uuid |-> client_id[c], remove |-> TRUE, data |-> 0])
    /\ clients' = Put(clients, client_id[c], [ws |-> None, time_offset |-> 0])
    /\ UNCHANGED <<client_id, sent, send_queue, gamestate, gamestate_updated,
                   pm_pc, bc_pc, inbox>>

\* Lines 184-198: one pass of the loop of process_messages, up to the sleep.
\* A KeyError ends the task: nothing catches it.
Merge ==
    /\ UNCHANGED <<sceneVars, netVars, clientVars, new_supers, callVars, wireVars>>
    /\ pm_pc = "ready"
    /\ LET r == MergeMsgs([gs |-> gamestate, updated |-> gamestate_updated,
                           ok |-> TRUE], receive_queue)
       IN /\ receive_queue' = <<>>
          /\ gamestate' = r.gs
          /\ IF ~r.ok
             THEN /\ pm_pc' = "crashed"
                  /\ gamestate_updated' = r.updated
                  /\ UNCHANGED send_queue
             ELSE /\ pm_pc' = "sleeping"
                  /\ IF ShouldSend(r.gs, r.updated)
                     THEN /\ send_queue' = send_queue + 1
                          /\ gamestate_updated' = FALSE
                     ELSE /\ gamestate_updated' = r.updated
                          /\ UNCHANGED send_queue
    /\ UNCHANGED <<conn_state, client_id, sent, clients, bc_pc, inbox>>

\* Line 198: the sleep ends.
Wake ==
    /\ UNCHANGED <<sceneVars, netVars, clientVars, new_supers, callVars, wireVars>>
    /\ pm_pc = "sleeping"
    /\ pm_pc' = "ready"
    /\ UNCHANGED <<conn_state, client_id, sent, clients, receive_queue, send_queue,
                   gamestate, gamestate_updated, bc_pc, inbox>>

\* The entries of Server.clients that line 94 keeps.
Recipients == {k \in DOMAIN clients : clients[k].ws /= None}

\* Line 92: asyncio.gather without return_exceptions raises the exception of
\* a send that failed; nothing in the broadcaster catches it and its task ends.
Gather(failed) == IF failed /= {} THEN "crashed" ELSE "running"

\* Lines 89-94: the broadcaster takes one message, which is gamestate itself,
\* as it is now.  gather runs _send_message for the clients in the order of
\* Server.clients; whichever is last leaves its offset in gamestate.  A send
\* on a socket that is closed raises ConnectionClosed; the other sends of
\* the gather still run.
Broadcast ==
    /\ UNCHANGED <<sceneVars, netVars, clientVars, new_supers, callVars, wireVars>>
    /\ bc_pc = "running"
    /\ send_queue > 0
    /\ send_queue' = send_queue - 1
    /\ IF gamestate /= EmptyDict /\ Recipients /= {}
       THEN /\ \E last \in Recipients :
                  gamestate' = SendMessage(clients[last], gamestate)
            /\ inbox' = [c \in Conns |->
                           IF /\ \E k \in Recipients : clients[k].ws = c
                              /\ conn_state[c] /= "lost"
                           THEN LET k == CHOOSE k \in Recipients : clients[k].ws = c
                                IN SendMessage(clients[k], gamestate)
                           ELSE inbox[c]]
            /\ bc_pc' = Gather({k \in Recipients :
                                   conn_state[clients[k].ws] = "lost"})
       ELSE UNCHANGED <<gamestate, inbox, bc_pc>>
    /\ UNCHANGED <<conn_state, client_id, sent, clients, receive_queue,
                   gamestate_updated, pm_pc>>

ServerNext ==
    \/ \E c \in Conns : \E uuid \in IdsOf(c) : Handshake(c, uuid)
    \/ \E c \in Conns : Receive(c)
    \/ \E c \in Conns : Drop(c)
    \/ \E c \in Conns : Close(c)
    \/ Merge
    \/ Wake
    \/ Broadcast

\* ------------------------------------------------ the client's update_net
\* Tables handed to update_net while the model runs (bound).
MaxTables == 2
\* Area-effect attacks carried by one payload (bound).
MaxEffects == 1

\* str(Gamestate.player.uuid)
MyUuid == IdNames[1]
\* App.config('name'); 'Player' unless the player chose a name.
MyName == "Player"
\* The keys of a received table: the own identity, two peers and 'offset'.
\* "B" is the identity of a peer written in upper case.
PeerKeys == {"b", "B"}
NetKeys == {MyUuid, "offset"} \cup PeerKeys
\* uuid.UUID(k): upper and lower case hexadecimal digits give the same UUID.
ParseUuid(k) == IF k = "B" THEN "b" ELSE k
\* str(u) of a UUID: lower case.
Str(u) == u
\* values['name'] of the payload under key k: the peer "b" kept the default
\* name, the peer "B" chose one.
NameOf(k) == IF k = "b" THEN "Player" ELSE "Peer"

Positions == {1, 2}
\* Gamestate.my_top_score of a peer, or any other score a payload carries.
Scores == {0, MaxHp}
Payloads == [position : Positions, score : Scores, supers : 0..MaxEffects]

\* The orders the keys of a table can come in.
KeyOrders ==
    {o \in UNION {[1..n -> NetKeys] : n \in 0..Cardinality(NetKeys)} :
        \A i \in 1..Len(o), j \in 1..Len(o) : i /= j => o[i] /= o[j]}

\* What the server holds under the own identity; update_net skips it.
MyPayload == [position |-> 1, score |-> 0, supers |-> 0]

\* update.items() of a table with the keys in order o: the payload of each
\* peer, and under 'offset' the offset the server stored for this client.
Table(o, pv) ==
    [i \in 1..Len(o) |->
        [key |-> o[i],
         value |-> IF o[i] \in PeerKeys THEN pv[o[i]] ELSE MyPayload,
         offset |-> ServerTime - ClockOf(1)]]

\* The tables a client can be sent.
Tables == {Table(o, pv) : o \in KeyOrders, pv \in [PeerKeys -> Payloads]}

\* The attributes of a payload that net_update stores on a Remote and that
\* are followed here: its position, its velocity and the time the peer
\* stamped the message.
GhostAttrs == {"position", "velocity", "time"}

\* sprite.net_update(values) for a payload of the peer the Remote stands
\* for: every attribute the payload has is assigned, the others are kept.
GhostApply(g, v) ==
    [a \in DOMAIN g \cup (DOMAIN v \cap GhostAttrs) |->
        IF a \in DOMAIN v \cap GhostAttrs THEN v[a] ELSE g[a]]

\* Lines 72-75: sprite.net_update(values) for every ghost with that uuid.
UpdateGhosts(gs, k, v) ==
    [i \in 1..Len(gs) |->
        IF Str(gs[i].uuid) = k THEN GhostApply(gs[i], v) ELSE gs[i]]

\* Lines 68-96 for one key of the table that is neither the own identity nor
\* 'offset'.  Line 91 raises KeyError (ok = FALSE) when the peer has no entry
\* in Gamestate.super_attacks.
ProcessPeer(st, k, v) ==
    LET scored == IF NameOf(k) = MyName
                  THEN [st EXCEPT !.score = v.score]
                  ELSE [st EXCEPT !.ps = Put(st.ps, NameOf(k), v.score)]
        uuid_found == \E i \in 1..Len(st.ghosts) : Str(st.ghosts[i].uuid) = k
        updated == [scored EXCEPT !.ghosts = UpdateGhosts(st.ghosts, k, v)]
    IN IF v.supers > 0 /\ k \notin DOMAIN st.sa
       THEN [updated EXCEPT !.ok = FALSE]
       ELSE LET added == IF v.supers > 0
                         THEN [updated EXCEPT !.sa = Put(st.sa, k, st.sa[k] + v.supers)]
                         ELSE updated
            IN IF uuid_found THEN added
               ELSE [added EXCEPT
                       !.ghosts = Append(added.ghosts,
                                         GhostApply([uuid |-> ParseUuid(k),
                                                     position |-> 0,
                                                     velocity |-> 0], v)),
                       !.sa = Put(added.sa, k, 0)]

\* Lines 61-96: the entries of the table in order, up to an exception.
RECURSIVE ProcessTable(_, _)
ProcessTable(st, t) ==
    IF t = <<>> \/ ~st.ok THEN st
    ELSE LET e == Head(t) IN
         IF e.key = Str(MyUuid) THEN ProcessTable(st, Tail(t))
         ELSE IF e.key = "offset"
              THEN ProcessTable([st EXCEPT !.off = e.offset], Tail(t))
              ELSE ProcessTable(ProcessPeer(st, e.key, e.value), Tail(t))

\* The last value of each attribute that the tables so far (m) and then the
\* table t carry for each peer key.
RECURSIVE Mention(_, _)
Mention(m, t) ==
    IF t = <<>> THEN m
    ELSE LET e == Head(t) IN
         IF e.key \in PeerKeys
         THEN Mention(Put(m, e.key,
                          GhostApply(IF e.key \in DOMAIN m THEN m[e.key]
                                     ELSE EmptyDict, e.value)),
                      Tail(t))
         ELSE Mention(m, Tail(t))

\* len(values['supers']) for each peer key of the table t.
RECURSIVE Carried(_, _)
Carried(m, t) ==
    IF t = <<>> THEN m
    ELSE LET e == Head(t) IN
         IF e.key \in PeerKeys
         THEN Carried(Put(m, e.key, e.value.supers), Tail(t))
         ELSE Carried(m, Tail(t))

\* scene.py lines 144 and 180-181, gamestate.py lines 24-27.
NetInit ==
    /\ ghosts = <<>>
    /\ super_attacks = EmptyDict
    /\ peer_score = EmptyDict
    /\ net_offset = 0
    /\ running = TRUE
    /\ tables_seen = 0
    /\ mentioned = EmptyDict
    /\ carried = EmptyDict

\* scene.py lines 398-399 for one received table t: Gamestate.update_net(t).
\* An exception is caught nowhere and ends the game.
UpdateNet ==
    /\ UNCHANGED <<serverVars, clientVars, new_supers, callVars, wireVars>>
    /\ running
    /\ tables_seen < MaxTables
    /\ tables_seen' = tables_seen + 1
    /\ \E t \in Tables :
          \E r \in {ProcessTable([ghosts |-> ghosts, sa |-> super_attacks,
                                  score |-> score, ps |-> peer_score,
                                  off |-> net_offset, ok |-> TRUE], t)} :
             /\ mentioned' = Mention(mentioned, t)
             /\ carried' = Carried(EmptyDict, t)
             /\ ghosts' = r.ghosts
             /\ super_attacks' = r.sa
             /\ score' = r.score
             /\ peer_score' = r.ps
             /\ net_offset' = r.off
             /\ running' = r.ok
    /\ UNCHANGED <<pc, idx, ticks, dead_sprites, enemies, enemy_hp, onscreen,
                   player_alive, player_hp, particles, supers, last_attack,
                   last_super, last_spawn,
                   player_rect, space, patterns, stamps>>

NetNext == UpdateNet

\* ------------------------------------------------ the frame of a client
\* Kills credited while the model runs (bound).
MaxKills == 1
\* The time span over which the frames of a client are followed (bound).
MaxClientTime == 7000
\* Gamestate.my_top_score: assigned nowhere but in the class body.
my_top_score == 0
\* msg['time'] of a peer's message.
Times == {1, 2}

\* The payloads of the tables a connected client receives: what a peer's
\* serialize gives (position, velocity, score, effects, time stamp), and a
\* payload that has neither position nor velocity.
ClientPayloads ==
    [position : Positions, velocity : {1}, score : {0}, supers : 0..MaxEffects,
     time : Times]
    \cup [score : {0}, supers : {0}, time : Times]

\* The tables a connected client receives: one peer each.
ClientTables ==
    {<<[key |-> k, value |-> v, offset |-> ServerTime - ClockOf(1)]>> :
        k \in PeerKeys, v \in ClientPayloads}

\* Explosion.serialize: what of the effect goes into the message.
ExplosionSerialize(x) ==
    [type |-> "explosion", spawn_time |-> x.spawn_time, lifetime |-> x.lifetime,
     windup |-> Windup]

\* Gamestate.serialize, then msg['time'] at line 406: the identity and name of
\* the player, Gamestate.my_top_score and the effects of new_supers.
Serialize(buffer, now) ==
    [uuid |-> Str(MyUuid), name |-> MyName, score |-> my_top_score,
     supers |-> [i \in 1..Len(buffer) |-> ExplosionSerialize(buffer[i])],
     time |-> now]

\* Ghost.update for every ghost (line 396): a ghost moves by its velocity for
\* the dt seconds of the frame.
GhostsUpdate(gs, dt) ==
    [i \in 1..Len(gs) |->
        [gs[i] EXCEPT !.position = gs[i].position + gs[i].velocity * dt]]

\* Lines 397-399: update_net for every drained table, in the order of the
\* list get_messages returns, up to an exception.
RECURSIVE ProcessQueue(_, _)
ProcessQueue(st, q) ==
    IF q = <<>> \/ ~st.ok THEN st
    ELSE ProcessQueue(ProcessTable(st, Head(q)), Tail(q))

\* Mention for every table of the queue q, first to last.
RECURSIVE MentionAll(_, _)
MentionAll(m, q) ==
    IF q = <<>> THEN m ELSE MentionAll(Mention(m, Head(q)), Tail(q))

ClientInit ==
    /\ net_queue = <<>>
    /\ arrived = 0
    /\ outbox = <<>>
    /\ kills = 0
    /\ prev_ticks = 0
    /\ new_supers = <<>>

\* Client.on_message (network.py lines 35-38): a table arrives and is queued.
OnMessage ==
    /\ running
    /\ arrived < MaxTables
    /\ arrived' = arrived + 1
    /\ \E t \in ClientTables : net_queue' = Append(net_queue, t)
    /\ UNCHANGED <<outbox, kills, prev_ticks, new_supers>>
    /\ UNCHANGED <<sceneVars, serverVars, netVars, callVars, wireVars>>

\* Lines 326-363 of a frame, as far as a client's messages depend on them:
\* the kills of the frame are credited to the score (check_attacks, line
\* 430).  The adversaries themselves are followed in Spec, not here.
Resolve(k) ==
    /\ pc = "supers"
    /\ kills + k <= MaxKills
    /\ kills' = kills + k
    /\ score' = score + k * MaxHp
    /\ pc' = "net"
    /\ UNCHANGED <<idx, ticks, dead_sprites, enemies, enemy_hp, onscreen,
                   player_alive, player_hp, particles, supers, last_attack,
                   last_super, last_spawn,
                   player_rect, space, patterns, stamps>>
    /\ UNCHANGED <<net_queue, arrived, outbox, prev_ticks, new_supers>>
    /\ UNCHANGED <<serverVars, netVars, callVars, wireVars>>

\* Scene.net_update (lines 365-366, 387-408): the ghosts move, the receive
\* queue is drained and its tables are processed first to last, then the
\* state is serialized and handed to client.send.  An exception in
\* update_net is caught nowhere: the frame, and the game, end there.
NetUpdate ==
    /\ pc = "net"
    /\ net_queue' = <<>>
    /\ prev_ticks' = ticks
    /\ tables_seen' = tables_seen + Len(net_queue)
    /\ mentioned' = MentionAll(mentioned, net_queue)
    /\ carried' = (IF net_queue = <<>> THEN carried
                   ELSE Carried(EmptyDict, net_queue[Len(net_queue)]))
    /\ \E r \in {ProcessQueue([ghosts |-> GhostsUpdate(ghosts,
                                                         (ticks - prev_ticks) \div 1000),
                                 sa |-> super_attacks, score |-> score,
                                 ps |-> peer_score, off |-> net_offset,
                                 ok |-> TRUE], net_queue)} :
          /\ ghosts' = r.ghosts
          /\ super_attacks' = r.sa
          /\ score' = r.score
          /\ peer_score' = r.ps
          /\ net_offset' = r.off
          /\ running' = r.ok
          /\ IF r.ok
             THEN /\ outbox' = Append(outbox, Serialize(new_supers, ticks))
                  /\ new_supers' = <<>>
                  /\ pc' = "idle"
             ELSE /\ UNCHANGED <<outbox, new_supers>>
                  /\ pc' = "crashed"
    /\ UNCHANGED <<idx, ticks, dead_sprites, enemies, enemy_hp, onscreen,
                   player_alive, player_hp, particles, supers, last_attack,
                   last_super, last_spawn,
                   player_rect, space, patterns, stamps>>
    /\ UNCHANGED <<arrived, kills>>
    /\ UNCHANGED <<serverVars, callVars, wireVars>>

\* The first phase of a frame of the client, within the time span followed.
ClientTick(dt, key) ==
    /\ ticks + dt <= MaxClientTime
    /\ TickStart(dt, key)

ClientNext ==
    \/ OnMessage
    \/ \E dt \in Dts, key \in BOOLEAN : ClientTick(dt, key)
    \/ \E k \in 0..1 : Resolve(k)
    \/ NetUpdate

\* ------------------------------------------------ Entity.net_update
\* Before any call.
NoCall == [fn |-> "none"]

CallInit ==
    /\ call = NoCall
    /\ result = NoCall

\* The attributes a payload can carry, of the ones Entity.serialize writes.
Attrs == {"uuid", "position", "innertia_scaler"}
\* values.items(): the attributes present, in the order of the payload.
AttrOrders ==
    {o \in UNION {[1..n -> Attrs] : n \in 0..Cardinality(Attrs)} :
        \A i \in 1..Len(o), j \in 1..Len(o) : i /= j => o[i] /= o[j]}
\* The identities a payload can name: the Remote's own, the same one in
\* upper case, and another one.
PayloadUuids == {"b", "B", "c"}
EntityPayloads ==
    [order : AttrOrders, uuid : PayloadUuids, position : Positions,
     innertia_scaler : Positions]

\* Ghost((0,0), Gamestate.sprite, euuid='b')
NewGhost ==
    [uuid |-> ParseUuid("b"), position |-> 0, innertia_scaler |-> 0]

\* Entity.net_update: the attributes in the order of the payload; a 'uuid'
\* that is not the entity's raises ValueError (ok = FALSE) where it stands.
RECURSIVE EntityNetUpdate(_, _, _)
EntityNetUpdate(st, order, values) ==
    IF order = <<>> \/ ~st.ok THEN st
    ELSE LET attr == Head(order) IN
         IF attr = "uuid"
         THEN IF ParseUuid(values.uuid) /= st.entity.uuid
              THEN [st EXCEPT !.ok = FALSE]
              ELSE EntityNetUpdate(st, Tail(order), values)
         ELSE IF attr = "position"
              THEN EntityNetUpdate([st EXCEPT !.entity.position = values.position],
                                   Tail(order), values)
              ELSE EntityNetUpdate(
                       [st EXCEPT !.entity.innertia_scaler = values.innertia_scaler],
                       Tail(order), values)

\* sprite.net_update(values) on a Remote that exists.
ApplyPayload ==
    /\ \E values \in EntityPayloads :
          /\ call' = [fn |-> "net_update", entity |-> NewGhost, values |-> values]
          /\ result' = EntityNetUpdate([entity |-> NewGhost, ok |-> TRUE],
                                       values.order, values)
    /\ UNCHANGED <<sceneVars, serverVars, netVars, clientVars, new_supers, wireVars>>

EntityNext == ApplyPayload

\* ------------------------------------------------ Client.send, Server.send
\* Messages handed to each send while the model runs (bound).
MaxSends == 2
\* Largest number of keys or items of a payload handed to send (bound).
MaxSize == 2

\* What send can be called with: a dict, a list, a str or None, with so many
\* keys, items or characters.
SendPayloads == [kind : {"dict", "list", "str", "none"}, size : 0..MaxSize]

\* A send that enqueues whatever it is given.
AnyPayload(message) == TRUE

\* isinstance(message, dict)
IsDict(message) == message.kind = "dict"

\* Client.send (network.py lines 65-81).
ClientSend ==
    /\ Len(outbox) < MaxSends
    /\ \E message \in SendPayloads :
          /\ call' = [fn |-> "Client.send", message |-> message]
          /\ IF IsDict(message)
             THEN /\ outbox' = Append(outbox, message)
                  /\ result' = [raised |-> "none"]
             ELSE /\ outbox' = outbox
                  /\ result' = [raised |-> "TypeError"]
    /\ UNCHANGED <<net_queue, arrived, kills, prev_ticks, new_supers>>
    /\ UNCHANGED <<sceneVars, serverVars, netVars, wireVars>>

\* Server.send (server.py lines 118-134).
ServerSend ==
    /\ send_queue < MaxSends
    /\ \E message \in SendPayloads :
          /\ call' = [fn |-> "Server.send", message |-> message]
          /\ IF IsDict(message)
             THEN /\ send_queue' = send_queue + 1
                  /\ result' = [raised |-> "none"]
             ELSE /\ send_queue' = send_queue
                  /\ result' = [raised |-> "TypeError"]
    /\ UNCHANGED <<conn_state, client_id, sent, clients, receive_queue,
                   gamestate, gamestate_updated, pm_pc, bc_pc, inbox>>
    /\ UNCHANGED <<sceneVars, netVars, clientVars, new_supers, wireVars>>

SendNext ==
    \/ ClientSend
    \/ ServerSend

\* ------------------------------------------------ spawn positions
\* The playable bounds: the screen, Rect(0, 0, 1280, 720).
Width == 1280
Height == 720
\* random.randint(50, 100): the distance from the edge.
MinMargin == 50
MaxMargin == 100
\* EnemyPattern's default distance, and spawn_near's.
PatternDistance == 25
NearDistance == 50

Edges == {"top", "left", "right", "bottom"}
Directions == Edges \cup {"any"}
\* random.choice(['top', 'left', 'right', 'bottom']) for 'any'.
Choice(direction) == IF direction = "any" THEN Edges ELSE {direction}

\* The draws of random.randint(50, 100) the model follows.
MarginDraws == {MinMargin, MinMargin + 1, MaxMargin}
\* The draws of random.randint(-100, extent + 100) the model follows.
AlongDraws(extent) == {-MaxMargin, 0, extent + MaxMargin}

\* A spawn_outside that leaves the offset on the inner side of the edge.
SpawnInside(direction, m, ax, ay) ==
    IF direction = "top" THEN [x |-> ax, y |-> m[2]]
    ELSE IF direction = "left" THEN [x |-> m[1], y |-> ay]
    ELSE IF direction = "right" THEN [x |-> Width - m[1], y |-> ay]
    ELSE IF direction = "bottom" THEN [x |-> ax, y |-> Height - m[2]]
    ELSE [x |-> m[1], y |-> m[2]]

\* Lines 214-228 of spawn_outside for an edge: m is the offset drawn at line
\* 214, ax and ay the draws along the edge.
SpawnOutside(direction, m, ax, ay) ==
    IF direction = "top" THEN [x |-> ax, y |-> -m[2]]
    ELSE IF direction = "left" THEN [x |-> -m[1], y |-> ay]
    ELSE IF direction = "right" THEN [x |-> m[1] + Width, y |-> ay]
    ELSE IF direction = "bottom" THEN [x |-> ax, y |-> m[2] + Height]
    ELSE [x |-> m[1], y |-> m[2]]

\* Every position spawn_outside(direction) can return.
SpawnOutsideSet(direction) ==
    {SpawnOutside(e, m, ax, ay) :
        e \in Choice(direction), m \in MarginDraws \X MarginDraws,
        ax \in AlongDraws(Width), ay \in AlongDraws(Height)}

\* Lines 253-267 of spawn_near for an edge: o is the offset drawn at line 253,
\* s the sign random.choice picks.
SpawnNear(target, direction, o, s) ==
    IF direction = "top" THEN [x |-> target.x + s * o[1], y |-> target.y - o[2]]
    ELSE IF direction = "left" THEN [x |-> target.x - o[1], y |-> target.y + s * o[2]]
    ELSE IF direction = "right" THEN [x |-> o[1] + target.x, y |-> target.y + s * o[2]]
    ELSE IF direction = "bottom" THEN [x |-> target.x + s * o[1], y |-> o[2] + target.y]
    ELSE [x |-> o[1], y |-> o[2]]

\* The draws of random.randint(0, distance*2) the model follows.
NearDraws(distance) == {0, distance, distance * 2}

\* Every position spawn_near(target, distance, direction) can return.
SpawnNearSet(target, distance, direction) ==
    {SpawnNear(target, e, o, s) :
        e \in Choice(direction),
        o \in NearDraws(distance) \X NearDraws(distance), s \in {1, -1}}

\* The patterns spawn_enemies is followed for: every edge, with and without a
\* leader, the follow distances 0 (none), the default and twice the default.
SpawnPatterns ==
    [spawn_type : Directions, has_leader : BOOLEAN,
     distance : {0, PatternDistance, PatternDistance * 2}]

\* spawn_outside(direction) (lines 199-228).
CallSpawnOutside ==
    /\ call = NoCall
    /\ \E direction \in Directions :
          \E pos \in SpawnOutsideSet(direction) :
             /\ call' = [fn |-> "spawn_outside", direction |-> direction]
             /\ result' = [pos |-> pos]
    /\ UNCHANGED <<sceneVars, serverVars, netVars, clientVars, new_supers, wireVars>>

\* What spawn_target can give an adversary as velocity: towards the player or
\* a target, or along the pattern's direction.
SpawnVelocities == {"towards", "along"}

\* spawn_enemies (lines 448-479) for the first two adversaries of the pool:
\* where they are respawned.  Without a leader each is placed by
\* spawn_outside(pattern.spawn_type).  With a leader, the edge of an 'any'
\* pattern is drawn for the leader (lines 455-457) and the follower is placed
\* by spawn_near around the leader with pattern.spawn_type (lines 463-469)
\* and is given pattern.leader_vel, the velocity spawn_target gave the leader
\* (lines 460-462, 471); without a leader spawn_target is called for each.
CallSpawnEnemies ==
    /\ call = NoCall
    /\ \E pattern \in SpawnPatterns :
          \E first \in SpawnOutsideSet(pattern.spawn_type) :
             \E second \in IF pattern.has_leader
                            THEN SpawnNearSet(first,
                                              IF pattern.distance /= 0
                                              THEN pattern.distance
                                              ELSE NearDistance,
                                              pattern.spawn_type)
                            ELSE SpawnOutsideSet(pattern.spawn_type) :
                \E v1 \in SpawnVelocities :
                   \E v2 \in IF pattern.has_leader THEN {v1} ELSE SpawnVelocities :
                      /\ call' = [fn |-> "spawn_enemies", pattern |-> pattern]
                      /\ result' = [spawned |-> <<first, second>>,
                                    velocity |-> <<v1, v2>>]
    /\ UNCHANGED <<sceneVars, serverVars, netVars, clientVars, new_supers, wireVars>>

SpawnNext ==
    \/ CallSpawnOutside
    \/ CallSpawnEnemies

\* ------------------------------------------------ spawn patterns
\* The targets a pattern is constructed with: None, the marker
\* 'bounds.center', Vector2(0, 0) and another Vector2.
Targets == {"None", "bounds.center", "zero", "point"}
\* The directions: None, Vector2(0, 0) and a unit vector.
TargetDirections == {"None", "zero", "unit"}
\* bool(v): None and Vector2(0, 0) are false.
Truthy(v) == v \notin {"None", "zero"}

\* EnemyPattern.__init__ (lines 54-62): the attributes, then the check.
EnemyPatternInit(n, spawn_type, has_leader, target, target_direction) ==
    IF Truthy(target) /\ Truthy(target_direction)
    THEN [raised |-> "ValueError"]
    ELSE [raised |-> "none",
          pattern |-> [number_of_enemies |-> n,
                       spawn_type |-> IF spawn_type \in Edges THEN spawn_type
                                      ELSE "any",
                       has_leader |-> has_leader,
                       target |-> target,
                       target_direction |-> target_direction]]

\* What a record holds under 'target': nothing, the marker 'bounds.center',
\* another string, or a list of two numbers.
Markers == {"absent", "bounds.center", "garbage", "list"}
\* What a record holds under 'target_direction': nothing, [0, 0] or [0, 1].
RecordDirections == {"absent", "zero", "unit"}
\* The records create_from_dict is followed for.
PatternRecords ==
    [target : Markers, target_direction : RecordDirections,
     spawn_type : {"absent", "top", "any"}, has_leader : {"absent", "true"},
     number_of_enemies : {1, 2}]

\* A parse that takes every marker for the centre of the bounds.
ParseTargetAsCenter(v) == "bounds.center"

\* Lines 83-87: the marker 'bounds.center' is kept, any other gives None.
ParseTarget(v) == IF v = "bounds.center" THEN "bounds.center" ELSE "None"

\* EnemyPattern.create_from_dict (lines 64-92): EnemyPattern(0, 'any'), then
\* one attribute for every key of the record.
CreateFromDict(ep) ==
    LET base == EnemyPatternInit(0, "any", FALSE, "None", "None").pattern IN
    [raised |-> "none",
     pattern |->
        [number_of_enemies |-> ep.number_of_enemies,
         spawn_type |-> IF ep.spawn_type = "absent" THEN base.spawn_type
                        ELSE ep.spawn_type,
         has_leader |-> IF ep.has_leader = "absent" THEN base.has_leader
                        ELSE ep.has_leader = "true",
         target |-> IF ep.target = "absent" THEN base.target
                    ELSE ParseTarget(ep.target),
         target_direction |-> IF ep.target_direction = "absent"
                              THEN base.target_direction
                              ELSE ep.target_direction]]

\* Scene.spawn_target (lines 482-501): where adversaries of the pattern go.
SpawnTarget(pattern) ==
    IF pattern.target = "bounds.center" THEN "center"
    ELSE IF pattern.target \in {"zero", "point"} THEN "point"
    ELSE IF Truthy(pattern.target_direction) THEN "direction"
    ELSE "player"

\* What a construction gives: the exception, or the pattern and where the
\* adversaries spawned from it go.
Constructed(r) ==
    IF r.raised = "none"
    THEN [raised |-> "none", pattern |-> r.pattern, goes |-> SpawnTarget(r.pattern)]
    ELSE r

\* EnemyPattern(n, spawn_type, has_leader=..., target=..., target_direction=...)
Construct ==
    /\ call = NoCall
    /\ \E n \in {1, 2}, spawn_type \in {"top", "any"}, has_leader \in BOOLEAN,
          target \in Targets, target_direction \in TargetDirections :
          /\ call' = [fn |-> "EnemyPattern", target |-> target,
                       target_direction |-> target_direction]
          /\ result' = Constructed(EnemyPatternInit(n, spawn_type, has_leader,
                                                     target, target_direction))
    /\ UNCHANGED <<sceneVars, serverVars, netVars, clientVars, new_supers, wireVars>>

\* EnemyPattern.create_from_dict(ep)
FromDict ==
    /\ call = NoCall
    /\ \E ep \in PatternRecords :
          /\ call' = [fn |-> "create_from_dict", target |-> ep.target,
                       target_direction |-> ep.target_direction]
          /\ result' = Constructed(CreateFromDict(ep))
    /\ UNCHANGED <<sceneVars, serverVars, netVars, clientVars, new_supers, wireVars>>

PatternNext ==
    \/ Construct
    \/ FromDict

\* ------------------------------------------------ specifications
\* ------------------------------------------------ Particle.update, repeated
\* The wall clock (time.time() * 1000) read by the successive updates; it is
\* not assumed to advance.
ClockTimes == {0, 500, 1000, 1500, 2000, 2500, 3000}
\* When the particle was spawned.
SpawnTimes == {0, 500, 1000}

\* Particle(...) or Explosion(...) is constructed.
CreateParticle ==
    /\ call = NoCall
    /\ \E t \in SpawnTimes, kind \in {"particle", "explosion"} :
          /\ call' = [fn |-> "__init__", kind |-> kind]
          /\ result' = IF kind = "particle" THEN NewParticle(t, ParticleLifetime)
                                            ELSE NewExplosion(t)
    /\ UNCHANGED <<sceneVars, serverVars, netVars, clientVars, new_supers, wireVars>>

\* One more call of update, at any reading of the clock; `was` remembers the
\* flag the call found.
CallUpdate ==
    /\ call /= NoCall
    /\ call.fn \in {"__init__", "update"}
    /\ \E now \in ClockTimes :
          /\ call' = [fn |-> "update", kind |-> call.kind, now |-> now,
                      was |-> result.has_expired]
          /\ result' = IF call.kind = "particle" THEN ParticleUpdate(result, now)
                                                 ELSE ExplosionUpdate(result, now)
    /\ UNCHANGED <<sceneVars, serverVars, netVars, clientVars, new_supers, wireVars>>

ParticleNext == CreateParticle \/ CallUpdate

\* ------------------------------------------------ a particle over the wire
\* pg.Rect: rect.center is (x + w // 2, y + h // 2).
Center(r) == <<r.x + r.w \div 2, r.y + r.h \div 2>>
\* rect.center = c moves the rectangle and keeps its size.
SetCenter(r, c) == [r EXCEPT !.x = c[1] - r.w \div 2, !.y = c[2] - r.h \div 2]
\* rect.topleft = c, for comparison.
SetTopleft(r, c) == [r EXCEPT !.x = c[1], !.y = c[2]]
\* pg.Rect(0,0,10,10)
SmallRect == [x |-> 0, y |-> 0, w |-> 10, h |-> 10]
\* pg.Color('Red')
Red == [r |-> 255, g |-> 0, b |-> 0, a |-> 255]
\* Gamestate.sprite: the player's rectangle is 32 by 32.
SpriteSize == 32
\* Explosion.__init__ defaults.
Radius == 100
ExplosionSpeed == 400
\* decay, in hundredths (0.95).
Decay == 95
\* Where the player's rectangle can be when the attack is cast.
PlayerXs == 0 .. 5
PlayerYs == 0 .. 3

\* Player.super_attack(ticks): the template explosion, reset to a copy of the
\* player's rectangle with velocity (0, 0) and the current time.
CastExplosion(px, py, now) ==
    [kind |-> "explosion",
     rect |-> [x |-> px, y |-> py, w |-> SpriteSize, h |-> SpriteSize],
     velocity |-> [x |-> 0, y |-> 0], color |-> Red,
     lifetime |-> ExplosionLifetime, spawn_time |-> now, has_expired |-> FALSE,
     windup |-> Windup, radius |-> Radius, explosion_speed |-> ExplosionSpeed,
     decay |-> Decay]

\* Explosion.serialize, then json.dumps / json.loads: tuples arrive as lists.
ParticleSerialize(p) ==
    [type |-> p.kind, position |-> Center(p.rect),
     velocity |-> <<p.velocity.x, p.velocity.y>>,
     color |-> <<p.color.r, p.color.g, p.color.b, p.color.a>>,
     spawn_time |-> p.spawn_time, lifetime |-> p.lifetime, windup |-> p.windup,
     radius |-> p.radius, explosion_speed |-> p.explosion_speed,
     decay |-> p.decay]

\* A reconstruction that takes the position for the corner of the rectangle.
ReconstructAtCorner(s) ==
    LET r == SetTopleft(SmallRect, s.position) IN
    [kind |-> "explosion",
     rect |-> [x |-> r.x, y |-> r.y, w |-> 2 * s.radius, h |-> 2 * s.radius],
     velocity |-> [x |-> s.velocity[1], y |-> s.velocity[2]],
     color |-> [r |-> s.color[1], g |-> s.color[2], b |-> s.color[3],
                a |-> s.color[4]],
     lifetime |-> s.lifetime, spawn_time |-> s.spawn_time, has_expired |-> FALSE,
     windup |-> s.windup, radius |-> s.radius,
     explosion_speed |-> s.explosion_speed, decay |-> s.decay]

\* Gamestate.update_net, lines 78-89: a 10 by 10 rectangle centred on the
\* position, the vector and the colour rebuilt, then Explosion.__init__,
\* which centres a 10 by 10 and then a 2*radius square on the same point.
Reconstruct(s) ==
    LET r == SetCenter(SmallRect, s.position)
        inner == SetCenter(SmallRect, Center(r))
        wide == SetCenter([inner EXCEPT !.w = 2 * s.radius, !.h = 2 * s.radius],
                          Center(r))
    IN [kind |-> "explosion", rect |-> wide,
        velocity |-> [x |-> s.velocity[1], y |-> s.velocity[2]],
        color |-> [r |-> s.color[1], g |-> s.color[2], b |-> s.color[3],
                   a |-> s.color[4]],
        lifetime |-> s.lifetime, spawn_time |-> s.spawn_time,
        has_expired |-> FALSE,
        windup |-> s.windup, radius |-> s.radius,
        explosion_speed |-> s.explosion_speed, decay |-> s.decay]

\* Line 90, p.update(time.time() - s['spawn_time']): the base update of the
\* new particle at clock `now` (ms), with dt the seconds of the clock minus
\* the milliseconds of the spawn time.  It expires the particle or moves it
\* by velocity * dt.
CatchUp(p, now) ==
    LET dt == now \div 1000 - p.spawn_time IN
    IF p.spawn_time + p.lifetime < now
    THEN [p EXCEPT !.has_expired = TRUE]
    ELSE [p EXCEPT !.rect.x = @ + p.velocity.x * dt,
                   !.rect.y = @ + p.velocity.y * dt]

\* Gamestate.serialize on the casting client, in the frame of the cast.
CallSerialize ==
    /\ call = NoCall
    /\ \E px \in PlayerXs, py \in PlayerYs, t \in SpawnTimes :
          /\ call' = [fn |-> "serialize"]
          /\ result' = [original |-> CastExplosion(px, py, t),
                        wire |-> ParticleSerialize(CastExplosion(px, py, t))]
    /\ UNCHANGED <<sceneVars, serverVars, netVars, clientVars, new_supers, wireVars>>

\* Gamestate.update_net on a receiving client, `delay` ms after the cast.
CallReconstruct ==
    /\ call /= NoCall
    /\ call.fn = "serialize"
    /\ \E delay \in {0, 1000, 2000} :
          /\ call' = [fn |-> "update_net", delay |-> delay]
          /\ result' = [original |-> result.original, wire |-> result.wire,
                        made |-> CatchUp(Reconstruct(result.wire),
                                         result.wire.spawn_time + delay)]
    /\ UNCHANGED <<sceneVars, serverVars, netVars, clientVars, new_supers, wireVars>>

RoundTripNext == CallSerialize \/ CallReconstruct

\* ------------------------------------------------ knockback
\* Entity.max_velocity
MaxVelocity == 300
\* Updates followed after a knockback (bound).
MaxUpdates == 8
\* dt of the frames, in ms; it is the same for every frame of a behaviour.
FrameMs == {5, 10}
\* innertia.length(): how far from the origin of the screen the contact point is.
OriginLengths == {8, 16, 24, 32, 40, 48, 64, 96}
\* The default scaler of gain_innertia, 1.25, as a fraction.
ScalerNum == 5
ScalerDen == 4

\* max_velocity * 8 * dt, with dt in ms.
DecayStep(dt) == (MaxVelocity * 8 * dt) \div 1000

\* A decay that halves the magnitude instead of subtracting from it.
KnockbackHalves(e, dt) ==
    IF e.innertia_scaler > 0
    THEN [e EXCEPT !.innertia_scaler = @ \div 2, !.overridden = TRUE,
                   !.updates = @ + 1]
    ELSE [e EXCEPT !.overridden = FALSE, !.updates = @ + 1]

\* Player.update lines 349-354 (Ghost.update lines 272-277 are the same):
\* while the magnitude is positive the entity is moved by the knockback and
\* the magnitude drops by the step; otherwise the input (or the velocity)
\* moves it.
KnockbackUpdate(e, dt) ==
    IF e.innertia_scaler > 0
    THEN [e EXCEPT !.innertia_scaler = @ - DecayStep(dt), !.overridden = TRUE,
                   !.updates = @ + 1]
    ELSE [e EXCEPT !.overridden = FALSE, !.updates = @ + 1]

\* Entity.gain_innertia with a contact point at distance `len` from the
\* origin and the default scaler.
GainInnertia ==
    /\ call = NoCall
    /\ \E len \in OriginLengths, dt \in FrameMs :
          /\ call' = [fn |-> "gain_innertia", dt |-> dt,
                      start |-> (len * ScalerNum) \div ScalerDen]
          /\ result' = [innertia_scaler |-> (len * ScalerNum) \div ScalerDen,
                        overridden |-> FALSE, updates |-> 0]
    /\ UNCHANGED <<sceneVars, serverVars, netVars, clientVars, new_supers, wireVars>>

\* One frame: Player.update with the dt of the behaviour.
UpdateEntity ==
    /\ call /= NoCall
    /\ call.fn \in {"gain_innertia", "update"}
    /\ result.updates < MaxUpdates
    /\ call' = [call EXCEPT !.fn = "update"]
    /\ result' = KnockbackUpdate(result, call.dt)
    /\ UNCHANGED <<sceneVars, serverVars, netVars, clientVars, new_supers, wireVars>>

KnockbackNext == GainInnertia \/ UpdateEntity

\* ---------------------------------------------- one area-effect attack
\* The times at which an attack is cast.
CastTimes == {0, 100}
\* The time between two frames, in ms.
ExplosionDts == {200, 250, 400}

\* Scene.update lines 330-333: the children that hit something (H[k]) are
\* expired by check_attacks, and the expired children are dropped.
PruneHit(subs, H) == Cull([k \in 1..Len(subs) |-> MarkHit(subs[k], H[k])])

\* Player.super_attack: a fresh explosion, not yet updated.
CastSuper ==
    /\ call = NoCall
    /\ \E t \in CastTimes :
          /\ call' = [fn |-> "super_attack", now |-> t]
          /\ result' = [x |-> NewExplosion(t), sweeps |-> <<>>, updates |-> <<>>]
    /\ UNCHANGED <<sceneVars, serverVars, netVars, clientVars, new_supers, wireVars>>

\* Scene.update lines 327-334 for the attack, one frame later: it is updated,
\* its children are checked, and it stays in the list while not expired.
\* `sweeps` records the frames whose update created children, `updates`
\* all frames.
UpdateExplosion ==
    /\ call /= NoCall
    /\ call.fn \in {"super_attack", "explosion_update"}
    /\ ~result.x.has_expired
    /\ \E dt \in ExplosionDts :
          LET now == call.now + dt
              x == ExplosionUpdate(result.x, now)
              made == \E k \in 1..Len(x.sub_particles) :
                          x.sub_particles[k].spawn_time = now
          IN /\ call' = [fn |-> "explosion_update", now |-> now]
             /\ \E H \in [1..Len(x.sub_particles) -> BOOLEAN] :
                   result' = [x |-> IF x.triggered
                                    THEN [x EXCEPT !.sub_particles = PruneHit(@, H)]
                                    ELSE x,
                              sweeps |-> IF made THEN Append(result.sweeps, now)
                                         ELSE result.sweeps,
                              updates |-> Append(result.updates, now)]
    /\ UNCHANGED <<sceneVars, serverVars, netVars, clientVars, new_supers, wireVars>>

ExplosionNext == CastSuper \/ UpdateExplosion

\* ------------------------------------------ one effect record of a peer
\* s['type'] of a record of values['supers']; "other" is any other string.
EffectKinds == {"particle", "explosion", "other"}
\* s['spawn_time'] of the record and the time update_net runs, in ms.
EffectSpawns == {0, 100, 200}
EffectDelays == {0, 300, 800}

\* Lines 78-89 of update_net: a record of type 'explosion' gives an
\* Explosion, every other record a plain Particle, which has neither
\* `triggered` nor `sub_particles`.
EffectOf(kind, s) ==
    IF kind = "explosion"
    THEN [spawn_time |-> s.spawn_time, lifetime |-> s.lifetime,
          has_expired |-> FALSE, triggered |-> FALSE, sub_particles |-> <<>>]
    ELSE [spawn_time |-> s.spawn_time, lifetime |-> s.lifetime,
          has_expired |-> FALSE]

\* p.update(...): Explosion.update for an Explosion, Particle.update for a
\* plain Particle.
EffectUpdate(p, now) ==
    IF "sub_particles" \in DOMAIN p THEN ExplosionUpdate(p, now)
    ELSE ParticleUpdate(p, now)

\* Lines 76-91 of update_net for a peer whose payload carries one record:
\* the effect is built, updated and appended to the peer's entry of
\* Gamestate.super_attacks; line 91 raises KeyError when the peer has no
\* entry yet (known = FALSE).
ReceiveEffect ==
    /\ call = NoCall
    /\ \E kind \in EffectKinds, t \in EffectSpawns, d \in EffectDelays,
          known \in BOOLEAN :
          LET s == [spawn_time |-> t,
                    lifetime |-> IF kind = "explosion" THEN ExplosionLifetime
                                 ELSE ParticleLifetime]
              p == EffectUpdate(EffectOf(kind, s), t + d)
          IN /\ call' = [fn |-> "update_net", kind |-> kind, now |-> t + d,
                         known |-> known]
             /\ result' = IF known
                           THEN [pending |-> <<p>>, error |-> "none",
                                 evaluated |-> FALSE]
                           ELSE [pending |-> <<>>, error |-> "KeyError",
                                 evaluated |-> FALSE]
    /\ UNCHANGED <<sceneVars, serverVars, netVars, clientVars, new_supers, wireVars>>

\* Scene.update lines 327-334 in the frame after the reception, for the
\* peer's entry: the effect is updated and `p.triggered` is read, which
\* raises AttributeError for a plain Particle; the children of a triggered
\* explosion are checked (H) and pruned, an expired effect is dropped.
EvaluateEffect ==
    /\ call /= NoCall
    /\ call.fn = "update_net"
    /\ result.error = "none"
    /\ \E dt \in ExplosionDts :
          LET now == call.now + dt
              p == EffectUpdate(result.pending[1], now)
          IN /\ call' = [call EXCEPT !.fn = "tick", !.now = now]
             /\ IF "triggered" \notin DOMAIN p
                THEN result' = [pending |-> <<p>>, error |-> "AttributeError",
                                evaluated |-> FALSE]
                ELSE \E H \in [1..Len(p.sub_particles) -> BOOLEAN] :
                        result' = [pending |->
                                       Cull(<<IF p.triggered
                                              THEN [p EXCEPT !.sub_particles =
                                                                PruneHit(@, H)]
                                              ELSE p>>),
                                   error |-> "none", evaluated |-> TRUE]
    /\ UNCHANGED <<sceneVars, serverVars, netVars, clientVars, new_supers, wireVars>>

EffectNext == ReceiveEffect \/ EvaluateEffect

\* ------------------------------------------------- one contact with the player
\* The centres of the player and of what hits it: points of the screen, the
\* origin (0, 0) of the world included.
Points == [x : 0..2, y : 0..2]
\* The hit points of the player before the contact.
HitPoints == {1, 2, MaxHp}
\* The power of an enemy and of a child of an area-effect attack.
Powers == {EnemyPower, SuperPower}

\* Vector2.normalize_ip: the vector divided by its length, kept as the
\* vector and the square of its length; a vector of length zero raises
\* ValueError.
NormalizeIp(v) ==
    IF v.x = 0 /\ v.y = 0
    THEN [error |-> "ValueError"]
    ELSE [error |-> "none", x |-> v.x, y |-> v.y, len2 |-> v.x * v.x + v.y * v.y]

\* Entity.gain_innertia(innertia) with the default scaler for an entity
\* centred at c: `if innertia` is false for the zero vector; otherwise the
\* direction from the contact to the centre is normalized and the magnitude
\* is innertia.length() * 1.25, kept as the square of its numerator.
GainInnertiaFrom(e, c, innertia) ==
    IF innertia.x = 0 /\ innertia.y = 0 THEN e
    ELSE LET n == NormalizeIp([x |-> c.x - innertia.x, y |-> c.y - innertia.y]) IN
         IF n.error /= "none"
         THEN [e EXCEPT !.error = n.error]
         ELSE [e EXCEPT !.innertia_vector = <<n.x, n.y, n.len2>>,
                        !.scaler2 = ScalerNum * ScalerNum
                                      * (innertia.x * innertia.x
                                         + innertia.y * innertia.y)]

\* Scene.damage_player(power, collision_center) for a player centred at c
\* with hp hit points.
DamagePlayerAt ==
    /\ call = NoCall
    /\ \E hp \in HitPoints, power \in Powers, c \in Points, at \in Points :
          LET e == [hp |-> hp - power, alive |-> hp - power > 0,
                    innertia_vector |-> <<0, 0, 0>>, scaler2 |-> 0,
                    error |-> "none"]
          IN /\ call' = [fn |-> "damage_player", hp |-> hp, power |-> power,
                         center |-> c, collision_center |-> at]
             /\ result' = IF e.alive THEN GainInnertiaFrom(e, c, at) ELSE e
    /\ UNCHANGED <<sceneVars, serverVars, netVars, clientVars, new_supers, wireVars>>

ContactNext == DamagePlayerAt

\* ------------------------------------------------ the threads of the client
\* Frames of the simulation followed (bound).
MaxFrames == 2
\* Messages the connection delivers (bound).
MaxArrivals == 3

\* {'uuid': ..., 'time': ...}, the first message Scene.__init__ hands to send.
HandshakeMsg == [kind |-> "handshake", n |-> 0]
\* Gamestate.serialize() of frame n.
StateMsg(n) == [kind |-> "state", n |-> n]
\* Before _send_messages has taken anything.
NoMsg == [kind |-> "none", n |-> 0]

\* A queue that hands out its newest item.
QueueGetNewest(q) == [item |-> q[Len(q)], rest |-> SubSeq(q, 1, Len(q) - 1)]

\* queue.Queue.get on a queue that is not empty: the oldest item.
QueueGet(q) == [item |-> Head(q), rest |-> Tail(q)]

\* A put that goes to the front of the queue.
QueuePutFront(q, m) == <<m>> \o q

\* queue.Queue.put
QueuePut(q, m) == Append(q, m)

\* Scene.__init__ up to and including client.start(): the client exists, its
\* connection thread has been started, nothing has been queued.
WireInit ==
    /\ sim_pc = "init"
    /\ c_running = FALSE
    /\ c_send_queue = <<>>
    /\ c_receive_queue = <<>>
    /\ sender_pc = "none"
    /\ sending = NoMsg
    /\ transmitted = <<>>
    /\ ret = <<>>
    /\ returned = <<>>
    /\ c_arrived = 0
    /\ frames = 0
    /\ opened_with = -1

\* scene.py line 196: the handshake is handed to Client.send.
SendHandshake ==
    /\ sim_pc = "init"
    /\ c_send_queue' = QueuePut(c_send_queue, HandshakeMsg)
    /\ sim_pc' = "frame"
    /\ UNCHANGED <<c_running, c_receive_queue, sender_pc, sending, transmitted,
                   ret, returned, c_arrived, frames, opened_with>>
    /\ UNCHANGED <<sceneVars, serverVars, netVars, clientVars, new_supers, callVars>>

\* Client.on_open, on the connection thread: the sender thread is started.
OnOpen ==
    /\ opened_with = -1
    /\ c_running' = TRUE
    /\ sender_pc' = "wait"
    /\ opened_with' = Len(c_send_queue)
    /\ UNCHANGED <<sim_pc, c_send_queue, c_receive_queue, sending, transmitted,
                   ret, returned, c_arrived, frames>>
    /\ UNCHANGED <<sceneVars, serverVars, netVars, clientVars, new_supers, callVars>>

\* Client.on_message, on the connection thread; the message is numbered by
\* its arrival.
ClientOnMessage ==
    /\ c_running
    /\ c_arrived < MaxArrivals
    /\ c_arrived' = c_arrived + 1
    /\ c_receive_queue' = QueuePut(c_receive_queue, c_arrived + 1)
    /\ UNCHANGED <<sim_pc, c_running, c_send_queue, sender_pc, sending,
                   transmitted, ret, returned, frames, opened_with>>
    /\ UNCHANGED <<sceneVars, serverVars, netVars, clientVars, new_supers, callVars>>

\* _send_messages, line 58: send_queue.get returns once there is an item.
SenderGet ==
    /\ sender_pc = "wait"
    /\ c_running
    /\ c_send_queue /= <<>>
    /\ sending' = QueueGet(c_send_queue).item
    /\ c_send_queue' = QueueGet(c_send_queue).rest
    /\ sender_pc' = "send"
    /\ UNCHANGED <<sim_pc, c_running, c_receive_queue, transmitted, ret, returned,
                   c_arrived, frames, opened_with>>
    /\ UNCHANGED <<sceneVars, serverVars, netVars, clientVars, new_supers, callVars>>

\* _send_messages, line 61: the item is written to the socket.
SenderSend ==
    /\ sender_pc = "send"
    /\ transmitted' = Append(transmitted, sending)
    /\ sender_pc' = "wait"
    /\ UNCHANGED <<sim_pc, c_running, c_send_queue, c_receive_queue, sending,
                   ret, returned, c_arrived, frames, opened_with>>
    /\ UNCHANGED <<sceneVars, serverVars, netVars, clientVars, new_supers, callVars>>

\* get_messages, line 93: the first test of receive_queue.empty().
DrainEnter ==
    /\ sim_pc = "frame"
    /\ frames < MaxFrames
    /\ IF c_receive_queue /= <<>>
       THEN /\ ret' = <<>>
            /\ sim_pc' = "test"
            /\ UNCHANGED returned
       ELSE /\ sim_pc' = "serialize"
            /\ UNCHANGED <<ret, returned>>
    /\ UNCHANGED <<c_running, c_send_queue, c_receive_queue, sender_pc, sending,
                   transmitted, c_arrived, frames, opened_with>>
    /\ UNCHANGED <<sceneVars, serverVars, netVars, clientVars, new_supers, callVars>>

\* get_messages, line 95: the test of the loop; when it fails, ret is
\* returned.
DrainTest ==
    /\ sim_pc = "test"
    /\ IF c_receive_queue /= <<>>
       THEN /\ sim_pc' = "get"
            /\ UNCHANGED <<ret, returned>>
       ELSE /\ sim_pc' = "serialize"
            /\ returned' = returned \o ret
            /\ ret' = <<>>
    /\ UNCHANGED <<c_running, c_send_queue, c_receive_queue, sender_pc, sending,
                   transmitted, c_arrived, frames, opened_with>>
    /\ UNCHANGED <<sceneVars, serverVars, netVars, clientVars, new_supers, callVars>>

\* get_messages, lines 96-97: receive_queue.get(), which waits while the
\* queue is empty.
DrainGet ==
    /\ sim_pc = "get"
    /\ c_receive_queue /= <<>>
    /\ ret' = Append(ret, QueueGet(c_receive_queue).item)
    /\ c_receive_queue' = QueueGet(c_receive_queue).rest
    /\ sim_pc' = "test"
    /\ UNCHANGED <<c_running, c_send_queue, sender_pc, sending, transmitted,
                   returned, c_arrived, frames, opened_with>>
    /\ UNCHANGED <<sceneVars, serverVars, netVars, clientVars, new_supers, callVars>>

\* Scene.net_update, lines 405-408: the state of the frame is handed to send.
SendState ==
    /\ sim_pc = "serialize"
    /\ c_send_queue' = QueuePut(c_send_queue, StateMsg(frames + 1))
    /\ frames' = frames + 1
    /\ sim_pc' = "frame"
    /\ UNCHANGED <<c_running, c_receive_queue, sender_pc, sending, transmitted,
                   ret, returned, c_arrived, opened_with>>
    /\ UNCHANGED <<sceneVars, serverVars, netVars, clientVars, new_supers, callVars>>

WireNext ==
    \/ SendHandshake
    \/ OnOpen
    \/ ClientOnMessage
    \/ SenderGet
    \/ SenderSend
    \/ DrainEnter
    \/ DrainTest
    \/ DrainGet
    \/ SendState

Init == SceneInit /\ ServerInit /\ NetInit /\ ClientInit /\ CallInit /\ WireInit

\* The game scene, frame after frame.
Spec == Init /\ [][Next]_vars

\* The relay server.
ServerSpec == Init /\ [][ServerNext]_vars

\* A client processing the tables it receives.
NetSpec == Init /\ [][NetNext]_vars

\* A connected client, frame after frame.
ClientSpec == Init /\ [][ClientNext]_vars

\* Calls of send on a client and on the server.
SendSpec == Init /\ [][SendNext]_vars

\* The positions adversaries are spawned at.
SpawnSpec == Init /\ [][SpawnNext]_vars

\* The construction of a spawn pattern.
PatternSpec == Init /\ [][PatternNext]_vars

\* A Remote applying one payload.
WireSpec == Init /\ [][WireNext]_vars
KnockbackSpec == Init /\ [][KnockbackNext]_vars
ExplosionSpec == Init /\ [][ExplosionNext]_vars
ContactSpec == Init /\ [][ContactNext]_vars
EffectSpec == Init /\ [][EffectNext]_vars
RoundTripSpec == Init /\ [][RoundTripNext]_vars
ParticleSpec == Init /\ [][ParticleNext]_vars
EntitySpec == Init /\ [][EntityNext]_vars

\* ------------------------------------------------- claims on the server

\* The deletion sentinel of identity u is in the receive queue.
SentinelQueued(u) ==
    \E i \in 1..Len(receive_queue) :
        receive_queue[i].uuid = u /\ receive_queue[i].remove

\* A steady-state message of identity u is in the receive queue.
DataQueued(u) ==
    \E i \in 1..Len(receive_queue) :
        receive_queue[i].uuid = u /\ ~receive_queue[i].remove

\* No other connection presented the identity of connection c.
OwnIdentity(c) ==
    \A x \in Conns \ {c} : conn_state[x] = "new" \/ client_id[x] /= client_id[c]

\* C4: for connections that completed the handshake and sent at least one
\* steady-state message, once the merge step has taken their messages and the
\* broadcaster has nothing left to send, every still-open one of them has
\* received a table in which every other one's identity maps to the latest
\* payload of that connection.
C4_PeersReceiveLatest ==
    \A c \in Conns, o \in Conns :
        ( /\ c /= o
          /\ conn_state[c] = "open" /\ conn_state[o] = "open"
          /\ OwnIdentity(c) /\ OwnIdentity(o)
          /\ sent[c] >= 1 /\ sent[o] >= 1
          /\ ~DataQueued(client_id[c]) /\ ~DataQueued(client_id[o])
          /\ send_queue = 0 )
        => /\ client_id[c] \in DOMAIN inbox[o]
           /\ inbox[o][client_id[c]] = sent[c]

\* C5: no message a connection was sent has the identity of that connection
\* as a key.
C5_NoOwnKey ==
    \A c \in Conns :
        inbox[c] /= EmptyDict => client_id[c] \notin DOMAIN inbox[c]

\* C6: once a merge step has started after the connection with identity a
\* closed (its sentinel is no longer queued), no broadcast sent to a remaining
\* connection contains the key a.
C6_LeaverGone ==
    [][(send_queue' = send_queue - 1 /\ gamestate /= EmptyDict) =>
         \A a \in Conns :
            ( /\ conn_state[a] = "closed"
              /\ OwnIdentity(a)
              /\ ~SentinelQueued(client_id[a]) )
            => \A k \in Recipients :
                  client_id[a] \notin DOMAIN inbox'[clients[k].ws]]_vars

\* C7: when a registered connection closes, its sentinel is enqueued; once
\* the sentinel has been taken by a merge step the table has no entry for its
\* identity and process_messages is still running; and a closed connection is
\* sent nothing.
C7_CloseHandled ==
    [][\A c \in Conns :
          /\ (conn_state[c] = "open" /\ conn_state'[c] = "closed")
             => \E i \in 1..Len(receive_queue') :
                   /\ receive_queue'[i].uuid = client_id[c]
                   /\ receive_queue'[i].remove
          /\ (conn_state'[c] = "closed" /\ OwnIdentity(c))
             => \/ \E i \in 1..Len(receive_queue') :
                      /\ receive_queue'[i].uuid = client_id[c]
                      /\ receive_queue'[i].remove
                \/ /\ client_id[c] \notin DOMAIN gamestate'
                   /\ pm_pc' /= "crashed"
          /\ conn_state[c] = "closed" => inbox'[c] = inbox[c]]_vars

\* C8: a connection whose first message carries no identity is rejected; its
\* handshake leaves the connection table, the receive queue and the merged
\* table as they were, and afterwards no entry of the connection table holds
\* its socket, nothing is keyed by the missing identity, and no message of it
\* is received.
C8_NoIdentityRejected ==
    [][\A c \in Conns :
          /\ (conn_state[c] = "new" /\ conn_state'[c] /= "new"
                 /\ client_id'[c] = NoId)
             => /\ conn_state'[c] = "rejected"
                /\ UNCHANGED <<clients, receive_queue, gamestate>>
          /\ conn_state'[c] = "rejected"
             => /\ \A k \in DOMAIN clients' : clients'[k].ws /= c
                /\ NoId \notin DOMAIN clients'
                /\ NoId \notin DOMAIN gamestate'
                /\ \A i \in 1..Len(receive_queue') : receive_queue'[i].uuid /= NoId
                /\ sent'[c] = 0]_vars

\* A connection has been rejected while another one is registered and has
\* its data in the merged table.
C8_Witness ==
    /\ \E c \in Conns : conn_state[c] = "rejected"
    /\ \E o \in Conns : conn_state[o] = "open" /\ client_id[o] \in DOMAIN gamestate
    /\ receive_queue = <<>>

\* C9: every period of process_messages that ends while a connection is open
\* puts the table on the send queue, whether or not a message arrived.
C9_EveryPeriodBroadcasts ==
    [][(pm_pc = "ready" /\ pm_pc' = "sleeping" /\ Recipients /= {})
         => send_queue' = send_queue + 1]_vars

\* C9, as the code has it: a period puts the table on the send queue exactly
\* when its merge step completes, the table is not empty and a message has
\* been merged since the table was last put there; a period whose merge step
\* fails puts nothing there.  Every broadcast of a non-empty table sends each
\* connection whose socket is in the connection table and has not been
\* closed the entire table with the offset stored for it.
C9_BroadcastOnUpdate ==
    [][/\ (pm_pc = "ready" /\ pm_pc' = "sleeping")
          => ( send_queue' = send_queue + 1
               <=> ( /\ gamestate' /= EmptyDict
                     /\ (receive_queue /= <<>> \/ gamestate_updated) ) )
       /\ (pm_pc = "ready" /\ pm_pc' = "crashed") => send_queue' = send_queue
       /\ (send_queue' = send_queue - 1 /\ gamestate /= EmptyDict)
          => \A k \in Recipients :
                LET got == inbox'[clients[k].ws] IN
                conn_state[clients[k].ws] /= "lost"
                => /\ DOMAIN got = DOMAIN gamestate \cup {"offset"}
                   /\ \A x \in DOMAIN gamestate \ {"offset"} : got[x] = gamestate[x]
                   /\ got["offset"] = clients[k].time_offset]_vars

\* A period has ended with nothing left to send, after an open connection was
\* sent the payloads of two identities and its own offset.
C9_Witness ==
    /\ pm_pc = "sleeping"
    /\ send_queue = 0
    /\ receive_queue = <<>>
    /\ \E c \in Conns :
          /\ conn_state[c] = "open"
          /\ Cardinality(DOMAIN inbox[c]) = 3
          /\ inbox[c]["offset"] = ServerTime - ClockOf(c)

\* ------------------------------------------------- claims on the client

\* The ghosts update_net finds for the key k of a table.
GhostsOf(gs, k) == {i \in 1..Len(gs) : Str(gs[i].uuid) = k}

\* C10: after a table has been processed there is exactly one Remote for
\* every peer key received so far, holding the position last received for it;
\* no two Remotes have the same identity and none has the own identity; and
\* the hit points and the alive state of the player are as they were.
C10_OneRemotePerIdentity ==
    [][tables_seen' = tables_seen + 1 =>
         /\ \A k \in DOMAIN mentioned' :
               /\ Cardinality(GhostsOf(ghosts', k)) = 1
               /\ \A i \in GhostsOf(ghosts', k) :
                     ghosts'[i].position = mentioned'[k].position
         /\ \A i \in 1..Len(ghosts'), j \in 1..Len(ghosts') :
               i /= j => ghosts'[i].uuid /= ghosts'[j].uuid
         /\ \A i \in 1..Len(ghosts') : ghosts'[i].uuid /= ParseUuid(MyUuid)
         /\ player_hp' = player_hp
         /\ player_alive' = player_alive]_vars

\* The pending effects update_net holds for the key k.
Pending(sa, k) == IF k \in DOMAIN sa THEN sa[k] ELSE 0

\* C11: processing a received table completes without an exception, and the
\* effects the table carries for a peer, a first-mentioned peer included, are
\* afterwards among the pending effects of that peer.
C11_EffectsKept ==
    [][tables_seen' = tables_seen + 1 =>
          /\ running'
          /\ \A k \in DOMAIN carried' :
                carried'[k] > 0 =>
                   /\ k \in DOMAIN super_attacks'
                   /\ super_attacks'[k] = Pending(super_attacks, k) + carried'[k]]_vars

\* C12: a payload naming an identity other than the Remote's raises ValueError
\* and leaves the Remote as it was.
C12_MismatchRejected ==
    (call.fn = "net_update"
       /\ "uuid" \in Range(call.values.order)
       /\ ParseUuid(call.values.uuid) /= call.entity.uuid)
    => (~result.ok /\ result.entity = call.entity)

\* C13: when a frame drains several tables, all of them are applied, first
\* to last, whatever their time stamps: afterwards every peer they mention
\* has a Remote, and each attribute of each of its Remotes has the value of
\* the last drained table that carries it for that peer, or, if none does,
\* the value it had before the tables were applied.
C13_LastTableWins ==
    [][(pc = "net" /\ pc' /= "net" /\ Len(net_queue) >= 2) =>
          LET m == MentionAll(EmptyDict, net_queue)
              before == GhostsUpdate(ghosts, (ticks - prev_ticks) \div 1000)
          IN /\ running'
             /\ \A k \in DOMAIN m :
                   /\ GhostsOf(ghosts', k) /= {}
                   /\ \A i \in GhostsOf(ghosts', k), a \in GhostAttrs :
                         ghosts'[i][a] =
                            IF a \in DOMAIN m[k] THEN m[k][a]
                            ELSE IF i <= Len(ghosts) THEN before[i][a]
                            ELSE 0]_vars

\* The messages of ob that carry the effect x.
SentIn(x, ob) ==
    {n \in 1..Len(ob) : ExplosionSerialize(x) \in Range(ob[n].supers)}

\* C14: each serialization puts every buffered effect into the message and
\* leaves the buffer empty, and every area-effect attack the player has cast
\* is in exactly one message once the frame of its cast is over; until then
\* it waits in the buffer for the serialization of that frame.
C14_EffectSentOnce ==
    [][/\ outbox' /= outbox =>
             /\ new_supers' = <<>>
             /\ outbox'[Len(outbox')].supers =
                   [i \in 1..Len(new_supers) |-> ExplosionSerialize(new_supers[i])]
       /\ \A i \in 1..Len(supers') :
             \/ /\ Cardinality(SentIn(supers'[i], outbox')) = 1
                /\ supers'[i] \notin Range(new_supers')
             \/ /\ SentIn(supers'[i], outbox') = {}
                /\ supers'[i] \in Range(new_supers')
                /\ pc' \in {"supers", "net"}]_vars

\* C15: the score field of every message handed to client.send is the score
\* the player has, kills included, when the message is serialized.
C15_ScoreSent ==
    [][outbox' /= outbox => outbox'[Len(outbox')].score = score']_vars

\* C16: send called with anything but a dict raises TypeError and leaves the
\* outbound queue as it was, on the client and on the server; called with a
\* dict it raises nothing and puts the dict on the queue.
C16_SendTyped ==
    [][/\ call'.fn = "Client.send" =>
             IF call'.message.kind = "dict"
             THEN outbox' = Append(outbox, call'.message) /\ result'.raised = "none"
             ELSE outbox' = outbox /\ result'.raised = "TypeError"
       /\ call'.fn = "Server.send" =>
             IF call'.message.kind = "dict"
             THEN send_queue' = send_queue + 1 /\ result'.raised = "none"
             ELSE send_queue' = send_queue /\ result'.raised = "TypeError"]_vars

\* Both queues hold a message and the last send was refused.
C16_Witness ==
    /\ outbox /= <<>>
    /\ send_queue > 0
    /\ call.fn \in {"Client.send", "Server.send"}
    /\ call.message.kind /= "dict"
    /\ result.raised = "TypeError"

\* C17: for each of the four edges, spawn_outside returns a position strictly
\* outside the bounds expanded by the margin, on the side of that edge.
C17_StrictlyOutside ==
    call.fn = "spawn_outside" =>
       LET p == result.pos IN
       /\ call.direction = "top" => p.y < -MinMargin
       /\ call.direction = "left" => p.x < -MinMargin
       /\ call.direction = "right" => p.x > Width + MinMargin
       /\ call.direction = "bottom" => p.y > Height + MinMargin

\* C17, as the code has it: for each of the four edges, spawn_outside returns
\* a position outside the bounds whose distance from that edge is at least
\* the margin and at most twice the margin, the margin itself included, and
\* whose coordinate along the edge is within twice the margin of the bounds.
C17_OutsideByMargin ==
    call.fn = "spawn_outside" =>
       LET p == result.pos IN
       /\ call.direction = "top" =>
             /\ -MaxMargin <= p.y /\ p.y <= -MinMargin
             /\ -MaxMargin <= p.x /\ p.x <= Width + MaxMargin
       /\ call.direction = "left" =>
             /\ -MaxMargin <= p.x /\ p.x <= -MinMargin
             /\ -MaxMargin <= p.y /\ p.y <= Height + MaxMargin
       /\ call.direction = "right" =>
             /\ Width + MinMargin <= p.x /\ p.x <= Width + MaxMargin
             /\ -MaxMargin <= p.y /\ p.y <= Height + MaxMargin
       /\ call.direction = "bottom" =>
             /\ Height + MinMargin <= p.y /\ p.y <= Height + MaxMargin
             /\ -MaxMargin <= p.x /\ p.x <= Width + MaxMargin

\* spawn_outside('right') has returned the position nearest to the bounds.
C17_Witness ==
    /\ call.fn = "spawn_outside"
    /\ call.direction = "right"
    /\ result.pos.x = Width + MinMargin

\* The position p is outside the bounds, the margin or more from them.
OutsideBounds(p) ==
    \/ p.x <= -MinMargin
    \/ p.x >= Width + MinMargin
    \/ p.y <= -MinMargin
    \/ p.y >= Height + MinMargin

\* C18: every adversary spawn_enemies places, leader, follower or neither, for
\* every edge and for 'any', is outside the bounds by the margin.
C18_SpawnedOutside ==
    call.fn = "spawn_enemies" =>
       \A i \in 1..Len(result.spawned) : OutsideBounds(result.spawned[i])

\* C19: a pattern constructed with both a fixed target and a direction, by
\* the constructor or from a record, raises a validation error and no pattern
\* results; constructed with neither, it is created and its adversaries seek
\* the player.
C19_BothRejected ==
    /\ (call.fn = "EnemyPattern"
           /\ call.target /= "None" /\ call.target_direction /= "None")
       => result.raised = "ValueError"
    /\ (call.fn = "create_from_dict"
           /\ call.target = "bounds.center" /\ call.target_direction /= "absent")
       => result.raised = "ValueError"
    /\ (call.fn = "EnemyPattern"
           /\ call.target = "None" /\ call.target_direction = "None")
       => (result.raised = "none" /\ result.goes = "player")
    /\ (call.fn = "create_from_dict"
           /\ call.target = "absent" /\ call.target_direction = "absent")
       => (result.raised = "none" /\ result.goes = "player")

\* C20: adversaries of a pattern made from a record whose target marker is
\* not recognized seek the player, whatever else the record holds.
C20_UnknownSeeksPlayer ==
    (call.fn = "create_from_dict" /\ call.target \in {"garbage", "list"})
    => (result.raised = "none" /\ result.goes = "player")

\* C20, as the code has it: a record whose target marker is not recognized
\* gives a pattern without a target; its adversaries move in the direction
\* of the record if it holds one that is not zero, and seek the player if not.
C20_UnknownIsNoTarget ==
    (call.fn = "create_from_dict" /\ call.target \in {"garbage", "list"})
    => /\ result.raised = "none"
       /\ result.pattern.target = "None"
       /\ result.goes = IF call.target_direction = "unit" THEN "direction"
                        ELSE "player"

\* A record with an unrecognized marker and no direction has given a pattern
\* whose adversaries seek the player.
C20_Witness ==
    /\ call.fn = "create_from_dict"
    /\ call.target = "garbage"
    /\ call.target_direction = "absent"
    /\ result.raised = "none"
    /\ result.goes = "player"

\* ------------------------------------------------- claims on the spawn check

\* A step of Scene.update that applies a spawn pattern.
PatternApplied == pc = "spawn" /\ Len(patterns') = Len(patterns) + 1

\* C21: when a pattern of n adversaries is applied while the pool holds
\* k < n, exactly the k pooled adversaries become active (in pool order,
\* behind those already active), the pool ends empty, the frame goes on to
\* the collision phase, and every adversary is still one of the
\* pre-allocated ones: none is allocated.
C21_PoolExhausted ==
    [][PatternApplied /\ Len(dead_sprites) < patterns'[Len(patterns')]
          => /\ dead_sprites' = <<>>
             /\ enemies' = enemies \o dead_sprites
             /\ Len(enemies') = Len(enemies) + Len(dead_sprites)
             /\ Range(enemies') \subseteq Enemies
             /\ DOMAIN enemy_hp' = Enemies
             /\ \A e \in Range(dead_sprites) : enemy_hp'[e] = MaxHp
             /\ pc' = "collide"]_vars

\* A pattern larger than the pool has just been applied and has activated
\* adversaries: the pool is empty and some adversary is freshly spawned.
C21_Witness ==
    /\ pc = "collide"
    /\ patterns /= <<>>
    /\ patterns[1] > PoolSize
    /\ dead_sprites = <<>>
    /\ \E e \in Range(enemies) : ~onscreen[e] /\ enemy_hp[e] = MaxHp

\* ------------------------------------------------- claims on particles

\* C22: once the expired flag of a particle or of an area-effect attack is
\* true, every further call of update leaves it true, whatever the clock
\* reads at that call.
C22_ExpiredStays ==
    [][call /= NoCall /\ result.has_expired => result'.has_expired]_vars

\* An expired particle was updated again at a reading of the clock that is
\* not past its lifetime, and is still expired.
C22_Witness ==
    /\ call /= NoCall
    /\ call.fn = "update"
    /\ call.was
    /\ ~(result.spawn_time + result.lifetime < call.now)
    /\ result.has_expired

TicksToStop(s, d) == (s + d - 1) \div d

\* A knockback is in progress or over.
Knocked == call /= NoCall /\ call.fn = "update"

\* C24 (as stated): the magnitude reaches exactly zero, so an update that no
\* longer overrides movement finds it at zero.
C24_ReachesZero ==
    (Knocked /\ ~result.overridden) => result.innertia_scaler = 0

\* C24 (amended): under a fixed dt the magnitude s drops by the same step
\* d = max speed x 8 x dt on every update that finds it positive; these are
\* the first TicksToStop(s, d) updates, each overriding movement; from then
\* on the magnitude stays at s - TicksToStop(s, d) * d, which is zero or
\* negative (above -d), and movement is no longer overridden.
C24_LinearDecay ==
    Knocked =>
        LET d == DecayStep(call.dt)
            n == TicksToStop(call.start, d)
        IN /\ result.updates <= n
              => /\ result.innertia_scaler = call.start - result.updates * d
                 /\ result.overridden
           /\ result.updates > n
              => /\ result.innertia_scaler = call.start - n * d
                 /\ ~result.overridden
           /\ call.start - n * d <= 0
           /\ call.start - n * d > -d

\* A knockback has ended below zero, and movement is no longer overridden.
C24_Witness ==
    /\ Knocked
    /\ ~result.overridden
    /\ result.innertia_scaler < 0
    /\ result.updates > 2

\* ------------------------------------------------- claims on the revive

\* The first phase of a frame, where the keys are read.
FrameStarts == pc = "idle" /\ pc' = "supers"

\* C25 (as stated): a revive resets the hit points, the position and both
\* cooldown timers, the primary one included (to the time of the revive, or
\* to its initial value).
C25_ReviveResetsBoth ==
    [][FrameStarts /\ ~player_alive /\ space'
          => /\ player_hp' = MaxHp
             /\ player_rect' = "respawn"
             /\ player_alive'
             /\ last_super' = ticks'
             /\ last_attack' \in {0, ticks'}]_vars

\* C25 (amended): pressing the revive input while defeated puts the hit
\* points at the maximum, the position at the respawn point, the secondary
\* cooldown timer, the spawn timer at the time of the revive and the score at
\* zero, and the player is alive again; the primary cooldown timer keeps its
\* value.  Without the input a defeated player stays defeated, and while the
\* player is alive the input changes neither hit points, nor score, nor the
\* spawn timer, nor the primary timer otherwise than by firing.
C25_Revive ==
    [][FrameStarts
          => /\ (~player_alive /\ space')
                => /\ player_hp' = MaxHp
                   /\ player_rect' = "respawn"
                   /\ player_alive'
                   /\ last_super' = ticks'
                   /\ last_spawn' = ticks'
                   /\ score' = 0
                   /\ last_attack' = last_attack
             /\ (~player_alive /\ ~space')
                => /\ ~player_alive'
                   /\ UNCHANGED <<player_hp, player_rect, last_super, last_spawn,
                                  score, last_attack>>
             /\ player_alive
                => /\ player_alive'
                   /\ UNCHANGED <<player_hp, score, last_spawn>>
                   /\ last_super' \in {last_super, ticks'}
                   /\ last_attack' \in {last_attack, ticks'}]_vars

\* The player has fired, was defeated and has just been revived: the
\* primary timer still holds the time of that earlier shot.
C25_Witness ==
    /\ pc = "supers"
    /\ space
    /\ player_alive
    /\ player_hp = MaxHp
    /\ player_rect = "respawn"
    /\ last_spawn = ticks
    /\ last_super = ticks
    /\ last_attack > 0
    /\ last_attack < ticks

\* C26: a pattern is applied only while the player is alive, only when more
\* than the spawn interval has passed since the previous application and
\* since the last revive, and at most once per frame.
C26_SpawnGated ==
    [][PatternApplied
          => /\ player_alive
             /\ stamps.applied >= 0 => ticks - stamps.applied > SpawnTimeout
             /\ stamps.revived >= 0 => ticks - stamps.revived > SpawnTimeout
             /\ patterns = <<>>
             /\ Len(patterns') = 1]_vars

\* A pattern has been applied in a frame that follows an earlier
\* application: an adversary of the earlier one has been on screen.
C26_Witness ==
    /\ pc = "collide"
    /\ Len(patterns) = 1
    /\ stamps.applied = ticks
    /\ player_alive
    /\ \E e \in Range(enemies) : onscreen[e]

\* ------------------------------------------------- claims on used particles

\* The children of the area-effect attacks.
SubParticles ==
    UNION {Range(supers[i].sub_particles) : i \in 1..Len(supers)}

\* C27: a particle of the player that hits at least one adversary in the
\* attack pass of a frame is marked expired by that pass; the particles
\* still to be checked in a pass are never expired ones, so a particle
\* marked in one frame is gone before the pass of the next and damages
\* nothing in a later frame; and a child of an area-effect attack that hit
\* is pruned in the same pass, so none that is expired is ever kept.
C27_SingleUse ==
    /\ [][(pc = "attacks" /\ idx <= Len(particles)
             /\ (dead_sprites' /= dead_sprites \/ enemy_hp' /= enemy_hp))
          => particles'[idx].has_expired]_vars
    /\ [](pc = "attacks"
            => \A i \in idx..Len(particles) : ~particles[i].has_expired)
    /\ [](pc /= "supers" => \A p \in SubParticles : ~p.has_expired)

\* After the attack pass a particle is expired although its lifetime is not
\* over: it hit an adversary in this frame.
C27_Witness ==
    /\ pc \in {"spawn", "collide", "idle"}
    /\ \E i \in 1..Len(particles) :
          /\ particles[i].has_expired
          /\ ~(particles[i].spawn_time + particles[i].lifetime < ticks)

\* ------------------------------------------------- claims on the offsets

\* C28: whatever a connection has been sent by a broadcast carries the
\* offset computed at the handshake of that connection, never the one of
\* another recipient of the same table.
C28_OwnOffset ==
    \A c \in Conns :
        inbox[c] /= EmptyDict
            => /\ "offset" \in DOMAIN inbox[c]
               /\ inbox[c]["offset"] = ServerTime - ClockOf(c)

\* Two connections have been sent the table, each with its own offset, and
\* the shared table holds the offset of one of them.
C28_Witness ==
    \E c, d \in Conns :
        /\ c /= d
        /\ conn_state[c] = "open"
        /\ conn_state[d] = "open"
        /\ inbox[c] /= EmptyDict
        /\ inbox[d] /= EmptyDict
        /\ inbox[c]["offset"] /= inbox[d]["offset"]
        /\ "offset" \in DOMAIN gamestate
        /\ gamestate["offset"] = inbox[d]["offset"]
        /\ send_queue = 0

\* ------------------------------------------------- claims on the client's queues

\* The messages numbered 1 to n, in the order of their arrival.
Arrivals(n) == [i \in 1..n |-> i]

\* C29: get_messages never waits: whenever the simulation thread is at
\* receive_queue.get() the queue holds an item, although on_message may put
\* items at any moment.  What it has returned so far, what it has collected
\* and what is still queued are, in this order, the messages received, in
\* the order of their arrival, each exactly once; and a call returns only
\* when the queue is empty, so that everything received before that moment
\* has then been returned.
C29_DrainInOrder ==
    /\ [](sim_pc = "get" => c_receive_queue /= <<>>)
    /\ [](returned \o ret \o c_receive_queue = Arrivals(c_arrived))
    /\ [][(sim_pc \in {"frame", "test"} /\ sim_pc' = "serialize")
             => /\ c_receive_queue = <<>>
                /\ returned' = Arrivals(c_arrived)]_vars

\* Two frames have drained the queue and two messages have been returned;
\* a third, which arrived after the last drain, is still queued.
C29_Witness ==
    /\ frames = 2
    /\ Len(returned) = 2
    /\ c_receive_queue = <<3>>
    /\ sim_pc = "frame"

\* C30: the handshake is the first message written to the socket, and the
\* only handshake; what is written follows the order in which the messages
\* were handed to send, whether that was before or after the connection
\* opened.
C30_HandshakeFirst ==
    LET wire == IF sender_pc = "send" THEN Append(transmitted, sending)
                                      ELSE transmitted
        all == wire \o c_send_queue
    IN /\ sim_pc /= "init"
          => all = <<HandshakeMsg>> \o [i \in 1..frames |-> StateMsg(i)]
       /\ sim_pc = "init" => all = <<>>
       /\ transmitted /= <<>> => transmitted[1] = HandshakeMsg
       /\ \A i \in 2..Len(transmitted) : transmitted[i].kind = "state"

\* The connection opened when the handshake and a steady-state message were
\* already queued, and both have been written, the handshake first.
C30_Witness ==
    /\ opened_with >= 2
    /\ Len(transmitted) >= 2
    /\ transmitted[1] = HandshakeMsg
    /\ transmitted[2] = StateMsg(1)

\* ------------------------------------------------- claims on the spawn count

\* C31: one application of a pattern moves at most as many adversaries from
\* the pool to the active set as the pattern's count, for every count, zero
\* included.
C31_AtMostCount ==
    [][PatternApplied
          => /\ Len(dead_sprites) - Len(dead_sprites') <= patterns'[Len(patterns')]
             /\ Len(enemies') - Len(enemies) <= patterns'[Len(patterns')]]_vars

\* ------------------------------------------------- claims on the followers

\* |a - b|
Dist(a, b) == IF a >= b THEN a - b ELSE b - a

\* The follow distance spawn_enemies hands to spawn_near: the pattern's, or
\* the default of spawn_near when the pattern's is 0.
FollowDistance(pattern) ==
    IF pattern.distance /= 0 THEN pattern.distance ELSE NearDistance

\* C32: in a pattern with a leader the adversary after the first is placed
\* within the follow distance of the leader's recorded position, on each
\* axis, and has the leader's recorded velocity.
C32_FollowerNear ==
    (call /= NoCall /\ call.fn = "spawn_enemies" /\ call.pattern.has_leader)
        => /\ Dist(result.spawned[2].x, result.spawned[1].x)
                 <= FollowDistance(call.pattern)
           /\ Dist(result.spawned[2].y, result.spawned[1].y)
                 <= FollowDistance(call.pattern)
           /\ result.velocity[2] = result.velocity[1]

\* ------------------------------------------------- claims on the auto-fire

\* The particles of the player that were created in the frame that starts.
FiredNow == {i \in 1..Len(particles') : particles'[i].spawn_time = ticks'}

SpawnTimesOf(ps) == {ps[i].spawn_time : i \in 1..Len(ps)}

\* C34: a step of a frame in which the player is and stays defeated leaves
\* the position and both cooldown clocks alone and creates no particle and
\* no area-effect attack; the start of such a frame keeps exactly the
\* particles that are neither marked expired nor past their lifetime.
C34_DefeatedIdle ==
    [][(~player_alive /\ ~player_alive')
          => /\ player_rect' = player_rect
             /\ last_attack' = last_attack
             /\ last_super' = last_super
             /\ Len(particles') <= Len(particles)
             /\ SpawnTimesOf(particles') \subseteq SpawnTimesOf(particles)
             /\ Len(supers') <= Len(supers)
             /\ Len(new_supers') <= Len(new_supers)
             /\ FrameStarts
                => particles' = SelectSeq(particles,
                                    LAMBDA p : /\ ~p.has_expired
                                               /\ ~(p.spawn_time + p.lifetime < ticks'))]_vars

\* A frame has started with the player defeated and no revive: the cooldown
\* and the charge would allow a shot at an active adversary and an
\* area-effect attack, and the particle fired before the defeat is still
\* there.
C34_Witness ==
    /\ pc = "supers"
    /\ ~player_alive
    /\ ~space
    /\ enemies /= <<>>
    /\ last_attack + AttackInterval < ticks
    /\ Len(particles) = 1
    /\ particles[1].spawn_time = last_attack
    /\ ticks - last_attack < ParticleLifetime + 1
    /\ ticks - last_super > SuperInterval

\* -------------------------------------------- claims on the area-effect attack

\* An area-effect attack is followed frame by frame.
Followed == call /= NoCall /\ call.fn \in {"super_attack", "explosion_update"}

\* The frames of the attack that were past the wind-up.
PastWindup ==
    {i \in 1..Len(result.updates) :
        result.x.spawn_time + Windup < result.updates[i]}

\* C35: an area-effect attack has no children before its wind-up has elapsed;
\* its children are created once, in the first update past the wind-up, and
\* in no later update up to the end of its lifetime, whatever was pruned.
C35_SweepOnce ==
    Followed
        => /\ PastWindup = {} => result.x.sub_particles = <<>> /\ result.sweeps = <<>>
           /\ PastWindup /= {}
              => LET first == CHOOSE i \in PastWindup : \A j \in PastWindup : i <= j
                     life == result.x.spawn_time + result.x.lifetime
                 IN {t \in Range(result.sweeps) : t <= life}
                    = {t \in {result.updates[first]} : t <= life}

\* ------------------------------------------- claims on the effects of peers

\* C36: an effect record received from a peer that has an entry among the
\* pending effects raises no error, whatever its kind, neither when it is
\* received nor in the frame that follows, and in that frame it is evaluated.
C36_EffectEvaluated ==
    /\ (call /= NoCall /\ call.fn = "update_net" /\ call.known)
          => result.error = "none"
    /\ (call /= NoCall /\ call.fn = "tick")
          => result.error = "none" /\ result.evaluated

\* --------------------------------------- claims on the connection table

\* C37: every connection that is open and past its handshake has its own
\* socket in the entry of its identity in the connection table, and so is
\* among the recipients of a broadcast, whatever other connections, also of
\* the same identity, have opened or closed.
C37_OwnEntry ==
    \A c \in Conns :
        conn_state[c] = "open"
            => /\ client_id[c] \in DOMAIN clients
               /\ clients[client_id[c]].ws = c
               /\ client_id[c] \in Recipients

\* C38: whenever a table is queued for sending and a connection is open with
\* its socket in the connection table, the broadcaster is running and sends
\* it the table, also after a send to another connection has failed because
\* its socket was closed before its handler marked the entry closed.
C38_BroadcasterSurvives ==
    \A c \in Conns :
        ( /\ send_queue > 0
          /\ conn_state[c] = "open"
          /\ client_id[c] \in Recipients
          /\ clients[client_id[c]].ws = c )
            => bc_pc = "running"

\* ------------------------------------------------ claims on the score table

\* C39: the processing of a received table leaves the entry of the local
\* player in the score table as it was, whatever names and scores the
\* payloads of the peers carry.
C39_OwnScoreKept ==
    [][tables_seen' = tables_seen + 1 => score' = score]_vars

\* ------------------------------------------------ claims on the contact

\* C40: contact damage and knockback raise no error, wherever the contact
\* point is, the player's own centre and the origin of the world included.
C40_ContactNeverRaises ==
    (call /= NoCall /\ call.fn = "damage_player") => result.error = "none"

=============================================================================
